---- MODULE Spec2Model ----
(***************************************************************************)
(* Model of data_management.py: the reconciliation and batched-write       *)
(* engine of the storagetooling synchronisation job.                       *)
(*                                                                         *)
(* Text values are sequences of one-character strings, so that the quote   *)
(* handling of the statement builders and of the store's literal syntax is *)
(* computed rather than assumed.  Surrogate IDs are naturals.              *)
(***************************************************************************)
EXTENDS Integers, Sequences, FiniteSets, TLC

VARIABLES
    db,          \* the relational store: table name -> sequence of rows
    nextid,      \* the store's identity counter per table
    cache,       \* storagetooling_tables_cache: table name -> cached rows
    log,         \* every statement handed to cursor.execute, with its outcome
    pc,          \* position of the single control flow
    family,      \* which public function the control flow is inside
    calls,       \* how many times that function has been entered
    storage_data_object,   \* the records fetched from the three sources
    loaded,      \* tables the loops of update_data_from_sources have read into the cache
    src,         \* the source records of the family being reconciled
    loc,         \* local variables of the running function
    bt,          \* frame of insert_data_to_table_batch
    dirty,       \* tables written since their cache was last reloaded (this call)
    stale,       \* tables whose cache was searched while they were in dirty
    now,         \* the wall clock, in seconds
    activezone_object_id_table_dict_list   \* the module-level list of that name

vars ==
    <<db, nextid, cache, log, pc, family, calls, storage_data_object, loaded, src, loc, bt, dirty,
      stale, now, activezone_object_id_table_dict_list>>

----------------------------------------------------------------------------
(* Bounds of the model *)

MaxRows == 4
MaxBatch == 3

----------------------------------------------------------------------------
(* Text *)

Q == "'"

\* Python's None where a text is expected
None == <<"<None>">>

Range(s) == {s[i] : i \in 1..Len(s)}

SeqsUpTo(S, n) == UNION {[1..k -> S] : k \in 0..n}

\* str.replace("'", "''")
RECURSIVE Escape(_)
Escape(s) ==
    IF s = <<>> THEN <<>>
    ELSE IF Head(s) = Q THEN <<Q, Q>> \o Escape(Tail(s))
    ELSE <<Head(s)>> \o Escape(Tail(s))

\* f"'{value}'"
Quoted(s) == <<Q>> \o s \o <<Q>>

\* The store's reading of the inside of a string literal: a quote stands for
\* itself only when doubled; a single quote ends the literal early.
RECURSIVE BodyOk(_)
BodyOk(s) ==
    IF s = <<>> THEN TRUE
    ELSE IF Head(s) = Q
         THEN Len(s) >= 2 /\ s[2] = Q /\ BodyOk(Tail(Tail(s)))
         ELSE BodyOk(Tail(s))

RECURSIVE Unescape(_)
Unescape(s) ==
    IF s = <<>> THEN <<>>
    ELSE IF Head(s) = Q THEN <<Q>> \o Unescape(Tail(Tail(s)))
    ELSE <<Head(s)>> \o Unescape(Tail(s))

LiteralOk(l) ==
    /\ Len(l) >= 2
    /\ l[1] = Q
    /\ l[Len(l)] = Q
    /\ BodyOk(SubSeq(l, 2, Len(l) - 1))

LiteralValue(l) == Unescape(SubSeq(l, 2, Len(l) - 1))

\* A dictionary keeps its keys in insertion order: cols and vals run in parallel.
Dict(cols, vals) == [cols |-> cols, vals |-> vals]

Field(d, c) == d.vals[CHOOSE j \in 1..Len(d.cols) : d.cols[j] = c]

\* What asyncio.gather(..., return_exceptions=True) puts in place of a result
Raised(class) == [exception |-> class]

IsException(entry) == "exception" \in DOMAIN entry

\* str.split(',')
RECURSIVE Split(_)
Split(s) ==
    IF \A i \in 1..Len(s) : s[i] # ","
    THEN <<s>>
    ELSE LET k == CHOOSE i \in 1..Len(s) : s[i] = "," /\ \A j \in 1..(i - 1) : s[j] # ","
         IN <<SubSeq(s, 1, k - 1)>> \o Split(SubSeq(s, k + 1, Len(s)))

\* str(n) of a surrogate ID
Digits == <<"0", "1", "2", "3", "4", "5", "6", "7", "8", "9">>

RECURSIVE Str(_)
Str(n) == IF n < 10 THEN <<Digits[n + 1]>> ELSE Str(n \div 10) \o <<Digits[(n % 10) + 1]>>

----------------------------------------------------------------------------
(* The store *)

Storage_Core_Tables == <<"activezones", "customers", "webs">>

Storage_Id_Tables ==
    <<"entitytype", "fabric", "health", "run", "stacks", "status", "switch", "webpools", "zone">>

Tables ==
    Range(Storage_Core_Tables) \cup Range(Storage_Id_Tables)
        \cup {"sannaventities", "UpdateTracking"}

\* Columns the statement builders leave out of an INSERT
Skipped == {"datecreated", "ID"}

InsertColumns(columns_list) == SelectSeq(columns_list, LAMBDA c : c \notin Skipped)

\* INSERT INTO [dbo].[table] (cols) VALUES (row),(row)...
InsertStmt(table, cols, rows) ==
    [op |-> "INSERT", table |-> table, cols |-> cols, rows |-> rows]

StmtRows(st) == IF st.op = "INSERT" THEN Len(st.rows) ELSE 0

\* A statement is accepted only if every literal in it is well formed.
StmtOk(st) ==
    CASE st.op = "INSERT" ->
            \A i \in 1..Len(st.rows) :
                /\ Len(st.rows[i]) = Len(st.cols)
                /\ \A j \in 1..Len(st.cols) : LiteralOk(st.rows[i][j])
      [] st.op = "UPDATE" ->
            /\ Len(st.sets) > 0
            /\ \A j \in 1..Len(st.sets) : LiteralOk(st.sets[j].lit)
            /\ LiteralOk(st.where.lit)
      [] OTHER -> TRUE

\* The row an INSERT adds: the identity column and the literal values.
NewRow(cols, lits, id) ==
    [c \in Range(cols) \cup {"ID"} |->
        IF c = "ID" THEN id
        ELSE LiteralValue(lits[CHOOSE j \in 1..Len(cols) : cols[j] = c])]

InsertedRows(st, first) ==
    [i \in 1..Len(st.rows) |-> NewRow(st.cols, st.rows[i], first + i - 1)]

\* The SET list applied to a row whatever the WHERE clause says
UpdatedRowUnscoped(r, st) ==
    [c \in DOMAIN r |->
        IF \E j \in 1..Len(st.sets) : st.sets[j].col = c
        THEN LiteralValue(st.sets[CHOOSE j \in 1..Len(st.sets) : st.sets[j].col = c].lit)
        ELSE r[c]]

UpdatedRow(r, st) ==
    IF r[st.where.col] = LiteralValue(st.where.lit)
    THEN [c \in DOMAIN r |->
            IF \E j \in 1..Len(st.sets) : st.sets[j].col = c
            THEN LiteralValue(st.sets[CHOOSE j \in 1..Len(st.sets) : st.sets[j].col = c].lit)
            ELSE r[c]]
    ELSE r

\* The store after a committed statement
DbAfter(d, ids, st) ==
    CASE st.op = "INSERT" ->
            [d EXCEPT ![st.table] = @ \o InsertedRows(st, ids[st.table])]
      [] st.op = "UPDATE" ->
            [d EXCEPT ![st.table] = [i \in 1..Len(@) |-> UpdatedRow(@[i], st)]]
      [] st.op = "TRUNCATE" ->
            [d EXCEPT ![st.table] = <<>>]
      [] OTHER -> d

IdsAfter(ids, st) ==
    CASE st.op = "INSERT" -> [ids EXCEPT ![st.table] = @ + Len(st.rows)]
      [] st.op = "TRUNCATE" -> [ids EXCEPT ![st.table] = 1]
      [] OTHER -> ids

\* What cursor.execute + conn.commit can do with a statement: "ok", or the
\* class of the exception raised.  A malformed statement is always refused.
Outcomes(st) == IF StmtOk(st) THEN {"ok", "pyodbc.Error"} ELSE {"pyodbc.Error"}

\* Every handler of the module reads "except ResourceWarning".
ExceptResourceWarning(exc) == exc = "ResourceWarning"

Logged(st, out) == [stmt |-> st, out |-> out, call |-> calls]

\* cursor.execute(statement); conn.commit() with outcome out
Exec(st, out) ==
    /\ log' = Append(log, Logged(st, out))
    /\ IF out = "ok"
       THEN /\ db' = DbAfter(db, nextid, st)
            /\ nextid' = IdsAfter(nextid, st)
       ELSE UNCHANGED <<db, nextid>>

ReturnsAnyway(out) == TRUE

\* Control returns to the caller after a statement: it succeeded, or the
\* handler around it caught what it raised.
Returns(out) == out = "ok" \/ ExceptResourceWarning(out)

\* __read_sql_tables_to_cache(table): the cache of table after SELECT * on store d
NotReloaded(c, d, table) == c

Reloaded(c, d, table) == [c EXCEPT ![table] = d[table]]

\* [item for item in cache.<table> if item[key] == value]
Search(c, table, key, value) == SelectSeq(c[table], LAMBDA item : item[key] = value)

----------------------------------------------------------------------------
(* insert_data_to_table and update_data_table: the statements they build *)

InsertOneValues(record_dict, columns) ==
    [j \in 1..Len(columns) |-> Quoted(Escape(Field(record_dict, columns[j])))]

\* An UPDATE of the parent column by name for webpools and webs, the INSERT otherwise
UpdateChildStmt(table_name, record_dict) ==
    IF table_name \in {"webpools", "webs"}
    THEN [op |-> "UPDATE", table |-> table_name,
          sets |-> <<[col |-> record_dict.cols[2], lit |-> Quoted(Escape(record_dict.vals[2]))]>>,
          where |-> [col |-> "name", lit |-> Quoted(Escape(record_dict.vals[1]))]]
    ELSE InsertStmt(table_name, InsertColumns(record_dict.cols),
                    <<InsertOneValues(record_dict, InsertColumns(record_dict.cols))>>)

InsertOneStmt(table_name, record_dict) ==
    LET columns == InsertColumns(record_dict.cols)
    IN InsertStmt(table_name, columns, <<InsertOneValues(record_dict, columns)>>)

\* record_dict['updates'] is a dictionary column -> value; the WHERE clause
\* is the text "column = 'value'".
UpdateStmt(table_name, updates, where_col, where_val) ==
    [op |-> "UPDATE", table |-> table_name,
     sets |-> [j \in 1..Len(updates.cols) |->
                 [col |-> updates.cols[j], lit |-> Quoted(updates.vals[j])]],
     where |-> [col |-> where_col, lit |-> Quoted(where_val)]]

\* __clear_table(table): TRUNCATE TABLE [dbo].[table]
ClearStmtOther(table) == [op |-> "TRUNCATE", table |-> "UpdateTracking"]

ClearStmt(table) == [op |-> "TRUNCATE", table |-> table]

\* __clear_table's try/except: the result it returns, or "raise" when the
\* exception is not one its handler names
ClearResultSwallow(out) == "True"

ClearResult(out) ==
    IF out = "ok" THEN "True"
    ELSE IF ExceptResourceWarning(out) THEN "False"
    ELSE "raise"

\* __update_source_refresh_timestamp(data_label)
TimestampStmt(data_label) == [op |-> "TIMESTAMP", table |-> "UpdateTracking", label |-> data_label]

----------------------------------------------------------------------------
(* insert_data_to_table_batch *)

NoFrame == [table |-> "", records |-> <<>>, size |-> 0, i |-> 0, count |-> 0,
            block |-> <<>>, columns |-> <<>>, ret |-> ""]

\* The call: the frame as it stands before the first statement of the body
BatchCall(table, record_list, size, ret) ==
    [table |-> table, records |-> record_list, size |-> size, i |-> 1, count |-> 0,
     block |-> <<>>, columns |-> <<>>, ret |-> ret]

\* One row of values: f"'{entry[column]}'" for every inserted column
BatchRowValues(entry, columns) == [j \in 1..Len(columns) |-> Quoted(Field(entry, columns[j]))]

\* The flush test of the loop body, on the count after the row was added
FlushDueAlways(count, size) == count # 0

FlushDueLate(count, size) == (count % (size + 1) = 0) /\ (count # 0)

FlushDue(count, size) == (count % size = 0) /\ (count # 0)

\* columns_list = list(record_list[0].keys()): fails on an empty list, and on
\* a first entry that is an exception object
BatchEnter ==
    /\ pc = "batch_enter"
    /\ IF bt.records = <<>> \/ IsException(bt.records[1])
       THEN /\ pc' = "raised"
            /\ loc' = [loc EXCEPT !.exc = IF bt.records = <<>> THEN "IndexError"
                                                              ELSE "AttributeError"]
            /\ bt' = bt
       ELSE /\ pc' = "batch_loop"
            /\ bt' = [bt EXCEPT !.columns = InsertColumns(bt.records[1].cols)]
            /\ loc' = loc
    /\ UNCHANGED <<db, nextid, cache, log, family, storage_data_object, loaded, now, activezone_object_id_table_dict_list, calls, src, dirty, stale>>

\* One iteration of "for entry in record_list": add the row, and flush when
\* the block is full.
BatchEntry ==
    /\ pc = "batch_loop"
    /\ bt.i <= Len(bt.records)
    /\ ~IsException(bt.records[bt.i])
    /\ LET block == Append(bt.block, BatchRowValues(bt.records[bt.i], bt.columns))
           count == bt.count + 1
           st == InsertStmt(bt.table, bt.columns, block)
       IN IF FlushDue(count, bt.size)
          THEN \E out \in Outcomes(st) :
                /\ Exec(st, out)
                /\ dirty' = IF out = "ok" THEN dirty \cup {bt.table} ELSE dirty
                /\ IF out = "ok" \/ ExceptResourceWarning(out)
                   THEN /\ bt' = [bt EXCEPT !.i = @ + 1, !.count = 0, !.block = <<>>]
                        /\ UNCHANGED <<pc, loc>>
                   ELSE /\ pc' = "raised"
                        /\ loc' = [loc EXCEPT !.exc = out]
                        /\ bt' = [bt EXCEPT !.block = block, !.count = count]
          ELSE /\ bt' = [bt EXCEPT !.i = @ + 1, !.count = count, !.block = block]
               /\ UNCHANGED <<db, nextid, log, pc, loc, dirty>>
    /\ UNCHANGED <<cache, family, storage_data_object, loaded, now, activezone_object_id_table_dict_list, calls, src, stale>>

\* entry[column] on an entry that is an exception object raises TypeError, which
\* no handler names.
BatchEntryRaises ==
    /\ pc = "batch_loop"
    /\ bt.i <= Len(bt.records)
    /\ IsException(bt.records[bt.i])
    /\ pc' = "raised"
    /\ loc' = [loc EXCEPT !.exc = "TypeError"]
    /\ UNCHANGED <<db, nextid, cache, log, family, storage_data_object, loaded, now, activezone_object_id_table_dict_list,
                   calls, src, bt, dirty, stale>>

\* The return after the loop without the flush of the fractional block
BatchTailNoFlush ==
    /\ pc = "batch_loop"
    /\ bt.i > Len(bt.records)
    /\ pc' = bt.ret
    /\ UNCHANGED <<db, nextid, cache, log, family, storage_data_object, loaded, now,
                   activezone_object_id_table_dict_list, calls, src, loc, bt, dirty, stale>>

\* After the loop: "if count > 0" flushes the fractional block, then return.
BatchTail ==
    /\ pc = "batch_loop"
    /\ bt.i > Len(bt.records)
    /\ LET st == InsertStmt(bt.table, bt.columns, bt.block)
       IN IF bt.count > 0
          THEN \E out \in Outcomes(st) :
                /\ Exec(st, out)
                /\ dirty' = IF out = "ok" THEN dirty \cup {bt.table} ELSE dirty
                /\ IF out = "ok" \/ ExceptResourceWarning(out)
                   THEN /\ pc' = bt.ret
                        /\ loc' = loc
                   ELSE /\ pc' = "raised"
                        /\ loc' = [loc EXCEPT !.exc = out]
          ELSE /\ pc' = bt.ret
               /\ UNCHANGED <<db, nextid, log, loc, dirty>>
    /\ bt' = bt
    /\ UNCHANGED <<cache, family, storage_data_object, loaded, now, activezone_object_id_table_dict_list, calls, src, stale>>

----------------------------------------------------------------------------
(* Specification of insert_data_to_table_batch called on its own *)

EmptyDb == [t \in Tables |-> <<>>]

\* storage_data_object before any fetch
NoSources == [customers |-> <<>>, stacks |-> <<>>, sannav |-> <<>>]

FreshIds == [t \in Tables |-> 1]

NoLocals == [exc |-> ""]

\* Already formatted customers rows, as __format_customer_insert_data returns them
CustomerColumns == <<"contextid", "customer", "status", "stackid">>

BatchRecords ==
    { Dict(CustomerColumns, <<<<"7">>, n, <<"1">>, <<"3">>>>) : n \in {<<"a">>, <<"b">>} }

\* A formatting task that failed leaves its exception in the list
BatchInputs == BatchRecords \cup {Raised("TypeError")}

InitBatch ==
    /\ db = EmptyDb
    /\ nextid = FreshIds
    /\ cache = EmptyDb
    /\ log = <<>>
    /\ family = "batch"
    /\ storage_data_object = NoSources
    /\ loaded = Range(Storage_Id_Tables) \cup Range(Storage_Core_Tables)
    /\ calls = 1
    /\ src = <<>>
    /\ loc = NoLocals
    /\ pc = "batch_enter"
    /\ dirty = {}
    /\ stale = {}
    /\ now = 0
    /\ activezone_object_id_table_dict_list = <<>>
    /\ \E record_list \in SeqsUpTo(BatchInputs, MaxRows), size \in 1..MaxBatch :
          bt = BatchCall("customers", record_list, size, "done")

NextBatch == BatchEnter \/ BatchEntry \/ BatchEntryRaises \/ BatchTail

SpecBatch == InitBatch /\ [][NextBatch]_vars

----------------------------------------------------------------------------
(* Reading the log *)

\* Statements executed against a table, in order
StmtsOn(l, table) == SelectSeq(l, LAMBDA e : e.stmt.table = table)

OpsOn(l, table, op) == SelectSeq(l, LAMBDA e : e.stmt.table = table /\ e.stmt.op = op)

CeilDiv(n, b) == (n + b - 1) \div b

----------------------------------------------------------------------------
(* C1: when insert_data_to_table_batch returns for a non-empty list of n rows
   and a block size B >= 1, it has executed exactly ceil(n/B) statements; every
   statement but the last holds B rows and the last holds the rest, so n = B
   gives one statement of B rows and n = B + 1 gives B rows and then 1 row. *)
C1_BatchFlushCount ==
    (family = "batch" /\ pc = "done") =>
        LET n == Len(bt.records)
            B == bt.size
            k == CeilDiv(n, B)
        IN /\ Len(log) = k
           /\ \A j \in 1..Len(log) :
                StmtRows(log[j].stmt) = IF j < k THEN B ELSE n - (k - 1) * B
           /\ (n = B => Len(log) = 1 /\ StmtRows(log[1].stmt) = B)
           /\ (n = B + 1 =>
                Len(log) = 2 /\ StmtRows(log[1].stmt) = B /\ StmtRows(log[2].stmt) = 1)

\* A batch of B + 1 rows with B > 1 has returned after two flushes.
C1_Witness ==
    /\ family = "batch"
    /\ pc = "done"
    /\ bt.size > 1
    /\ Len(bt.records) = bt.size + 1
    /\ Len(log) = 2

----------------------------------------------------------------------------
(* update_stack_data *)

MaxStackRecords == 2
MaxCalls == 2

webpool_location_check == <<"prod", "remote">>

WebpoolName(record, location) ==
    IF location = "prod" THEN record.prod_webpool_name ELSE record.remote_webpool_name

WebpoolWebs(record, location) ==
    IF location = "prod" THEN record.prod_webpool ELSE record.remote_webpool

StackColumns == <<"Stack", "locallocation", "prodlocation", "remotelocation">>

stacks_data_formatted_short(record) ==
    Dict(<<"Stack", "locallocation", "prodlocation">>,
         <<record.stack, record.local_location, record.prod_location>>)

stacks_data_formatted(record) ==
    Dict(StackColumns,
         <<record.stack, record.local_location, record.prod_location, record.remote_location>>)

\* The columns compared against the cached row, in the order of the three tests
MutableColumns == <<"locallocation", "prodlocation", "remotelocation">>

stacks_columns_update_all(formatted, table_entry) ==
    Dict(MutableColumns, [j \in 1..Len(MutableColumns) |-> Field(formatted, MutableColumns[j])])

\* stacks_columns_update: the columns whose incoming value differs from table_entry
stacks_columns_update(formatted, table_entry) ==
    LET differing == SelectSeq(MutableColumns,
                               LAMBDA c : Field(formatted, c) # table_entry[c])
    IN Dict(differing, [j \in 1..Len(differing) |-> Field(formatted, differing[j])])

StackLocals == [exc |-> "", r |-> 1, l |-> 1, w |-> 1, webpoolid |-> <<>>, webs_list |-> <<>>]

\* A search of a cached table that was written and not reloaded since
Looked(table) == stale \cup ({table} \cap dirty)

\* The body of "for record in storage_data_object.stacks" up to the webpool loop
StackRecord ==
    /\ pc = "stack_record"
    /\ loc.r <= Len(src)
    /\ LET record == src[loc.r]
           formatted == stacks_data_formatted(record)
           search_stack_table == Search(cache, "stacks", "Stack", record.stack)
       IN /\ stale' = Looked("stacks")
          /\ IF search_stack_table = <<>>
             THEN LET st == InsertOneStmt("stacks", formatted)
                  IN \E out \in Outcomes(st) :
                        /\ Exec(st, out)
                        /\ IF Returns(out)
                           THEN /\ cache' = Reloaded(cache, db', "stacks")
                                /\ dirty' = dirty \ {"stacks"}
                                /\ pc' = "stack_webpool"
                                /\ loc' = [loc EXCEPT !.l = 1]
                           ELSE /\ pc' = "raised"
                                /\ loc' = [loc EXCEPT !.exc = out]
                                /\ UNCHANGED <<cache, dirty>>
             ELSE LET updates == stacks_columns_update(formatted, search_stack_table[1])
                      st == UpdateStmt("stacks", updates, "Stack", record.stack)
                  IN IF updates.cols # <<>>
                     THEN \E out \in Outcomes(st) :
                            /\ Exec(st, out)
                            /\ dirty' = IF out = "ok" THEN dirty \cup {"stacks"} ELSE dirty
                            /\ cache' = cache
                            /\ IF Returns(out)
                               THEN /\ pc' = "stack_webpool"
                                    /\ loc' = [loc EXCEPT !.l = 1]
                               ELSE /\ pc' = "raised"
                                    /\ loc' = [loc EXCEPT !.exc = out]
                     ELSE /\ pc' = "stack_webpool"
                          /\ loc' = [loc EXCEPT !.l = 1]
                          /\ UNCHANGED <<db, nextid, log, cache, dirty>>
    /\ UNCHANGED <<family, storage_data_object, loaded, now, activezone_object_id_table_dict_list, calls, src, bt>>

\* The body of "for location in webpool_location_check" up to the web loop
StackWebpool ==
    /\ pc = "stack_webpool"
    /\ LET record == src[loc.r]
           location == webpool_location_check[loc.l]
           name == WebpoolName(record, location)
           webpools_data_formatted == Dict(<<"name", "stackid">>, <<name, record.stack>>)
           search_webpools_table == Search(cache, "webpools", "name", name)
           webs_list == Split(WebpoolWebs(record, location))
       IN /\ stale' = Looked("webpools")
          /\ IF search_webpools_table # <<>>
             THEN /\ loc' = [loc EXCEPT !.webpoolid = Str(search_webpools_table[1].ID),
                                        !.webs_list = webs_list, !.w = 1]
                  /\ pc' = "stack_web"
                  /\ UNCHANGED <<db, nextid, log, cache, dirty>>
             ELSE LET st == InsertOneStmt("webpools", webpools_data_formatted)
                  IN \E out \in Outcomes(st) :
                        /\ Exec(st, out)
                        /\ IF Returns(out)
                           THEN LET again == Search(Reloaded(cache, db', "webpools"),
                                                    "webpools", "name", name)
                                IN /\ cache' = Reloaded(cache, db', "webpools")
                                   /\ dirty' = dirty \ {"webpools"}
                                   /\ IF again = <<>>
                                      THEN /\ pc' = "raised"
                                           /\ loc' = [loc EXCEPT !.exc = "IndexError"]
                                      ELSE /\ pc' = "stack_web"
                                           /\ loc' = [loc EXCEPT !.webpoolid = Str(again[1].ID),
                                                                 !.webs_list = webs_list,
                                                                 !.w = 1]
                           ELSE /\ pc' = "raised"
                                /\ loc' = [loc EXCEPT !.exc = out]
                                /\ UNCHANGED <<cache, dirty>>
    /\ UNCHANGED <<family, storage_data_object, loaded, now, activezone_object_id_table_dict_list, calls, src, bt>>

\* The body of "for web in webs_list"
StackWeb ==
    /\ pc = "stack_web"
    /\ loc.w <= Len(loc.webs_list)
    /\ LET web == loc.webs_list[loc.w]
           webs_data_formatted == Dict(<<"name", "webpoolid">>, <<web, loc.webpoolid>>)
           search_webs_table == Search(cache, "webs", "name", web)
           st == InsertOneStmt("webs", webs_data_formatted)
       IN /\ stale' = Looked("webs")
          /\ IF search_webs_table = <<>>
             THEN \E out \in Outcomes(st) :
                    /\ Exec(st, out)
                    /\ dirty' = IF out = "ok" THEN dirty \cup {"webs"} ELSE dirty
                    /\ IF Returns(out)
                       THEN /\ pc' = pc
                            /\ loc' = [loc EXCEPT !.w = @ + 1]
                       ELSE /\ pc' = "raised"
                            /\ loc' = [loc EXCEPT !.exc = out]
             ELSE /\ loc' = [loc EXCEPT !.w = @ + 1]
                  /\ UNCHANGED <<db, nextid, log, pc, dirty>>
    /\ UNCHANGED <<cache, family, storage_data_object, loaded, now, activezone_object_id_table_dict_list, calls, src, bt>>

\* After the web loop: refresh the webs cache, then the next location or record
StackWebsReload ==
    /\ pc = "stack_web"
    /\ loc.w > Len(loc.webs_list)
    /\ cache' = Reloaded(cache, db, "webs")
    /\ dirty' = dirty \ {"webs"}
    /\ IF loc.l < Len(webpool_location_check)
       THEN /\ loc' = [loc EXCEPT !.l = @ + 1]
            /\ pc' = "stack_webpool"
       ELSE /\ loc' = [loc EXCEPT !.r = @ + 1]
            /\ pc' = "stack_record"
    /\ UNCHANGED <<db, nextid, log, family, storage_data_object, loaded, now, activezone_object_id_table_dict_list, calls, src, bt, stale>>

\* After the record loop: the UpdateTracking timestamp, then return
StackFinish ==
    /\ pc = "stack_record"
    /\ loc.r > Len(src)
    /\ \E out \in Outcomes(TimestampStmt("stacks")) :
          /\ Exec(TimestampStmt("stacks"), out)
          /\ IF Returns(out)
             THEN pc' = "stack_done" /\ loc' = loc
             ELSE pc' = "raised" /\ loc' = [loc EXCEPT !.exc = out]
    /\ UNCHANGED <<cache, family, storage_data_object, loaded, now, activezone_object_id_table_dict_list, calls, src, bt, dirty, stale>>

\* update_stack_data is called again in the same process on the same source data
StackAgain ==
    /\ pc = "stack_done"
    /\ calls < MaxCalls
    /\ calls' = calls + 1
    /\ pc' = "stack_record"
    /\ loc' = StackLocals
    /\ dirty' = {}
    /\ UNCHANGED <<db, nextid, cache, log, family, storage_data_object, loaded, now, activezone_object_id_table_dict_list, src, bt, stale>>

----------------------------------------------------------------------------
(* Specification of update_stack_data *)

StackNames == {<<"7">>, <<"8", Q>>}

Locations == {<<"A">>, <<"B">>}

\* Webpool names and web lists of a source record: two distinct pools with one
\* web each, or one pool named twice with a web repeated in its list.
WebVariants ==
    { [pn |-> <<"p">>, pw |-> <<"w">>, rn |-> <<"q">>, rw |-> <<"x">>],
      [pn |-> <<"p">>, pw |-> <<"w", ",", "w">>, rn |-> <<"p">>, rw |-> <<"w", ",", "y">>] }

StackSources ==
    { [stack |-> s, local_location |-> a, prod_location |-> b, remote_location |-> c,
       prod_webpool_name |-> v.pn, prod_webpool |-> v.pw,
       remote_webpool_name |-> v.rn, remote_webpool |-> v.rw] :
        s \in StackNames, a \in Locations, b \in Locations, c \in Locations,
        v \in WebVariants }

StackRow(id, s, a, b, c) ==
    [ID |-> id, Stack |-> s, locallocation |-> a, prodlocation |-> b, remotelocation |-> c]

WebpoolRow(id, n, s) == [ID |-> id, name |-> n, stackid |-> s]

WebRow(id, n, p) == [ID |-> id, name |-> n, webpoolid |-> p]

\* Stores the function can start from: nothing yet, or rows of earlier passes
StackStores ==
    { EmptyDb,
      [EmptyDb EXCEPT !["stacks"] = <<StackRow(1, <<"7">>, <<"A">>, <<"A">>, <<"A">>)>>,
                      !["webpools"] = <<WebpoolRow(1, <<"p">>, <<"7">>)>>,
                      !["webs"] = <<WebRow(1, <<"w">>, <<"1">>)>>],
      [EmptyDb EXCEPT !["stacks"] = <<StackRow(1, <<"7">>, <<"A">>, <<"A">>, <<"A">>),
                                      StackRow(2, <<"8", Q>>, <<"A">>, <<"B">>, <<"A">>)>>] }

InitStack ==
    /\ db \in StackStores
    /\ nextid = [t \in Tables |-> Len(db[t]) + 1]
    /\ cache = db
    /\ log = <<>>
    /\ family = "stack"
    /\ storage_data_object = NoSources
    /\ loaded = Range(Storage_Id_Tables) \cup Range(Storage_Core_Tables)
    /\ calls = 1
    /\ src \in SeqsUpTo(StackSources, MaxStackRecords)
    /\ loc = StackLocals
    /\ pc = "stack_record"
    /\ bt = NoFrame
    /\ dirty = {}
    /\ stale = {}
    /\ now = 0
    /\ activezone_object_id_table_dict_list = <<>>

NextStack ==
    \/ StackRecord
    \/ StackWebpool
    \/ StackWeb
    \/ StackWebsReload
    \/ StackFinish
    \/ StackAgain

SpecStack == InitStack /\ [][NextStack]_vars

----------------------------------------------------------------------------
(* Claims about update_stack_data *)

IsStackUpdate(e) == e.stmt.op = "UPDATE" /\ e.stmt.table = "stacks"

\* The incoming value of a stacks column, read from the source record
IncomingValue(record, c) ==
    CASE c = "locallocation" -> record.local_location
      [] c = "prodlocation" -> record.prod_location
      [] c = "remotelocation" -> record.remote_location

\* The control flow is about to process a record whose stack is / is not cached
AtCachedStack ==
    /\ family = "stack"
    /\ pc = "stack_record"
    /\ loc.r <= Len(src)
    /\ Search(cache, "stacks", "Stack", src[loc.r].stack) # <<>>

AtNewStack ==
    /\ family = "stack"
    /\ pc = "stack_record"
    /\ loc.r <= Len(src)
    /\ Search(cache, "stacks", "Stack", src[loc.r].stack) = <<>>

OneMoreStatement == Len(log') = Len(log) + 1 /\ SubSeq(log', 1, Len(log)) = log

(* C2: running update_stack_data twice in a row on the same source records,
   from a state where the cache mirrors the store, executes no UPDATE
   against stacks during the second run. *)
C2_SecondRunNoUpdate ==
    \A j \in 1..Len(log) : log[j].call = 2 => ~IsStackUpdate(log[j])

(* C3: when the incoming stack is found in the cache, the step executes an
   UPDATE of stacks that sets exactly the location columns whose incoming
   value differs from the cached row, each to the incoming value, and executes
   nothing when no column differs. *)
C3_UpdateSetsExactlyDiffering ==
    [][AtCachedStack =>
        LET record == src[loc.r]
            cached == Search(cache, "stacks", "Stack", record.stack)[1]
            D == {c \in {"locallocation", "prodlocation", "remotelocation"} :
                    IncomingValue(record, c) # cached[c]}
        IN IF D = {}
           THEN log' = log
           ELSE /\ OneMoreStatement
                /\ LET st == log'[Len(log')].stmt
                   IN /\ st.op = "UPDATE"
                      /\ st.table = "stacks"
                      /\ Len(st.sets) = Cardinality(D)
                      /\ {st.sets[j].col : j \in 1..Len(st.sets)} = D
                      /\ \A j \in 1..Len(st.sets) :
                            st.sets[j].lit = Quoted(IncomingValue(record, st.sets[j].col))
                      /\ st.where = [col |-> "Stack", lit |-> Quoted(record.stack)]
    ]_vars

\* The step of a cached stack has just executed an UPDATE touching only
\* prodlocation, and the store holds the new value.
C3_Witness ==
    /\ family = "stack"
    /\ pc = "stack_webpool"
    /\ loc.l = 1
    /\ Len(log) >= 1
    /\ IsStackUpdate(log[Len(log)])
    /\ log[Len(log)].out = "ok"
    /\ Len(log[Len(log)].stmt.sets) = 1
    /\ log[Len(log)].stmt.sets[1].col = "prodlocation"
    /\ \E i \in 1..Len(db["stacks"]) :
          /\ db["stacks"][i]["Stack"] = src[loc.r].stack
          /\ db["stacks"][i]["prodlocation"] = src[loc.r].prod_location
          /\ cache["stacks"][i]["prodlocation"] # src[loc.r].prod_location

(* C4: when the record's stack is not in the stacks cache, the step executes
   exactly one statement, an INSERT into stacks whose values are the record's
   stack and its three location columns; and an UPDATE is executed only by the
   step of a record whose stack is cached, so none is executed for this one. *)
C4_NewStackOneInsertNoUpdate ==
    [][/\ AtNewStack =>
            /\ OneMoreStatement
            /\ LET st == log'[Len(log')].stmt
                   record == src[loc.r]
               IN /\ st.op = "INSERT"
                  /\ st.table = "stacks"
                  /\ Len(st.rows) = 1
                  /\ \A c \in {"locallocation", "prodlocation", "remotelocation"} :
                        \E j \in 1..Len(st.cols) :
                            /\ st.cols[j] = c
                            /\ st.rows[1][j] = Quoted(Escape(IncomingValue(record, c)))
                  /\ \E j \in 1..Len(st.cols) :
                        st.cols[j] = "Stack" /\ st.rows[1][j] = Quoted(Escape(record.stack))
       /\ (Len(log') > Len(log) /\ log'[Len(log')].stmt.op = "UPDATE") => AtCachedStack
    ]_vars

\* A stack that was not cached has been inserted and is now in the reloaded cache.
C4_Witness ==
    /\ family = "stack"
    /\ pc = "stack_webpool"
    /\ Len(log) = 1
    /\ log[1].stmt.op = "INSERT"
    /\ log[1].stmt.table = "stacks"
    /\ log[1].out = "ok"
    /\ Search(cache, "stacks", "Stack", src[loc.r].stack) # <<>>

(* C10: within one call, no cached table is searched after a write to that
   table without a reload of its cache in between. *)
C10_NoStaleLookup == family = "stack" => stale = {}

----------------------------------------------------------------------------
(* update_customer_data *)

MaxCustomers == 3

\* tranaction_block_size of insert_data_to_table_batch
DefaultBlockSize == 250

FormatCustomerAnyCase(customer) ==
    IF customer.NAME = None
    THEN Raised("TypeError")
    ELSE Dict(CustomerColumns,
              <<customer.ID, Escape(customer.NAME),
                IF customer.L \in {<<"Y">>, <<"y">>} THEN <<"1">> ELSE <<"0">>,
                customer.STACKNUMBER>>)

\* __format_customer_insert_data(customer); a NAME of None (a short line of the
\* export) makes the test for an apostrophe raise TypeError
FormatCustomer(customer) ==
    LET status == IF customer.L = <<"Y">> THEN <<"1">> ELSE <<"0">>
        customer_name == IF Q \in Range(customer.NAME)
                         THEN Escape(customer.NAME)
                         ELSE customer.NAME
    IN IF customer.NAME = None
       THEN Raised("TypeError")
       ELSE Dict(CustomerColumns, <<customer.ID, customer_name, status, customer.STACKNUMBER>>)

\* __customer_lookup_async(): one formatted record per customer, in order
CustomerLookup(customers) == [i \in 1..Len(customers) |-> FormatCustomer(customers[i])]

CustomerLocals == [exc |-> "", results |-> <<>>, before |-> 0]

\* results = asyncio.run(__customer_lookup_async())
CustomerFormat ==
    /\ pc = "cust_format"
    /\ loc' = [loc EXCEPT !.results = CustomerLookup(src)]
    /\ pc' = "cust_clear"
    /\ UNCHANGED <<db, nextid, cache, log, family, storage_data_object, loaded, now, activezone_object_id_table_dict_list, calls, src, bt, dirty, stale>>

\* __clear_table('customers'), the exit on a failed clear, and the test for
\* records that leads into the batched insert
CustomerClear ==
    /\ pc = "cust_clear"
    /\ LET st == ClearStmt("customers")
       IN \E out \in Outcomes(st) :
            /\ Exec(st, out)
            /\ dirty' = IF out = "ok" THEN dirty \cup {st.table} ELSE dirty
            /\ CASE ClearResult(out) = "raise" ->
                        /\ pc' = "raised"
                        /\ loc' = [loc EXCEPT !.exc = out]
                        /\ bt' = bt
                 [] ClearResult(out) = "False" ->
                        /\ pc' = "exited"
                        /\ loc' = [loc EXCEPT !.exc = "SystemExit"]
                        /\ bt' = bt
                 [] OTHER ->
                        IF Len(loc.results) > 0
                        THEN /\ pc' = "batch_enter"
                             /\ bt' = BatchCall("customers", loc.results,
                                                DefaultBlockSize, "cust_reload")
                             /\ loc' = loc
                        ELSE /\ pc' = "cust_done"
                             /\ UNCHANGED <<bt, loc>>
    /\ UNCHANGED <<cache, family, storage_data_object, loaded, now, activezone_object_id_table_dict_list, calls, src, stale>>

\* After the batch: reload the customers cache, then the UpdateTracking timestamp
CustomerReload ==
    /\ pc = "cust_reload"
    /\ cache' = Reloaded(cache, db, "customers")
    /\ dirty' = dirty \ {"customers"}
    /\ \E out \in Outcomes(TimestampStmt("customers")) :
          /\ Exec(TimestampStmt("customers"), out)
          /\ IF Returns(out)
             THEN pc' = "cust_done" /\ loc' = loc
             ELSE pc' = "raised" /\ loc' = [loc EXCEPT !.exc = out]
    /\ UNCHANGED <<family, storage_data_object, loaded, now, activezone_object_id_table_dict_list, calls, src, bt, stale>>

----------------------------------------------------------------------------
(* Specification of update_customer_data *)

CustomerSources ==
    { [ID |-> <<"7">>, NAME |-> n, L |-> l, STACKNUMBER |-> <<"3">>] :
        n \in {<<"a">>, <<"o", Q, "b">>, None}, l \in {<<"Y">>, <<"N">>} }

CustomerRow(id, c, n, st, s) ==
    [ID |-> id, contextid |-> c, customer |-> n, status |-> st, stackid |-> s]

\* Rows the customers table holds before the pass
CustomerStores ==
    { EmptyDb,
      [EmptyDb EXCEPT !["customers"] = <<CustomerRow(1, <<"5">>, <<"z">>, <<"1">>, <<"3">>)>>],
      [EmptyDb EXCEPT !["customers"] = <<CustomerRow(1, <<"5">>, <<"z">>, <<"1">>, <<"3">>),
                                         CustomerRow(2, <<"7">>, <<"a">>, <<"0">>, <<"3">>)>>] }

InitCustomer ==
    /\ db \in CustomerStores
    /\ nextid = [t \in Tables |-> Len(db[t]) + 1]
    /\ cache = db
    /\ log = <<>>
    /\ family = "customer"
    /\ storage_data_object = NoSources
    /\ loaded = Range(Storage_Id_Tables) \cup Range(Storage_Core_Tables)
    /\ calls = 1
    /\ src \in SeqsUpTo(CustomerSources, MaxCustomers)
    /\ loc = [CustomerLocals EXCEPT !.before = Len(db["customers"])]
    /\ pc = "cust_format"
    /\ bt = NoFrame
    /\ dirty = {}
    /\ stale = {}
    /\ now = 0
    /\ activezone_object_id_table_dict_list = <<>>

NextCustomer ==
    \/ CustomerFormat
    \/ CustomerClear
    \/ BatchEnter
    \/ BatchEntry
    \/ BatchEntryRaises
    \/ BatchTail
    \/ CustomerReload

SpecCustomer == InitCustomer /\ [][NextCustomer]_vars

----------------------------------------------------------------------------
(* Claims about update_customer_data *)

IsCustomerInsert(e) == e.stmt.op = "INSERT" /\ e.stmt.table = "customers"

IsCustomerClear(e) == e.stmt.op = "TRUNCATE" /\ e.stmt.table = "customers"

(* C5: when update_customer_data has returned, the customers table holds as
   many rows as there were incoming customer records, whatever it held before. *)
C5_CustomerRowCount ==
    (family = "customer" /\ pc = "cust_done") => Len(db["customers"]) = Len(src)

\* The function has returned over a table that held a different number of
\* rows before the pass than the source has records.
C5_Witness ==
    /\ family = "customer"
    /\ pc = "cust_done"
    /\ loc.before > 0
    /\ loc.before # Len(src)
    /\ Len(src) > 0
    /\ Len(db["customers"]) = Len(src)

(* C6: every INSERT executed against customers comes after a successful
   TRUNCATE of customers in the same call; and once the TRUNCATE has failed,
   the function has stopped, no INSERT was executed, and the table holds the
   rows it held before. *)
C6_NoInsertWithoutClear ==
    family = "customer" =>
        /\ \A j \in 1..Len(log) :
              IsCustomerInsert(log[j]) =>
                  \E i \in 1..(j - 1) : IsCustomerClear(log[i]) /\ log[i].out = "ok"
        /\ (\E i \in 1..Len(log) : IsCustomerClear(log[i]) /\ log[i].out # "ok") =>
              /\ pc \in {"raised", "exited"}
              /\ \A j \in 1..Len(log) : ~IsCustomerInsert(log[j])
              /\ Len(db["customers"]) = loc.before

\* The clear has failed with records waiting to be inserted.
C6_Witness ==
    /\ family = "customer"
    /\ pc \in {"raised", "exited"}
    /\ Len(loc.results) > 0
    /\ Len(log) = 1
    /\ IsCustomerClear(log[1])
    /\ log[1].out # "ok"

----------------------------------------------------------------------------
(* __format_sannav_insert_data *)

\* A key the source record does not have
Absent == <<"<absent>">>

AbsentList == <<<<"<absent>">>>>

none == <<"none">>

\* The attribute of the record a reference table is looked up by, in the formatter
FormatSourceLabel(sannav_id_table) ==
    CASE sannav_id_table = "switch" -> "switchName"
      [] sannav_id_table = "fabric" -> "fabricName"
      [] OTHER -> sannav_id_table

\* column_id = f'{source_label}id'
ColumnId(sannav_id_table) ==
    CASE sannav_id_table = "switch" -> "switchNameid"
      [] sannav_id_table = "fabric" -> "fabricNameid"
      [] sannav_id_table = "entitytype" -> "entitytypeid"
      [] sannav_id_table = "health" -> "healthid"
      [] sannav_id_table = "status" -> "statusid"
      [] sannav_id_table = "zone" -> "zoneid"

format_id_tables == <<"entitytype", "fabric", "health", "status", "switch", "zone">>

\* The record after the classification by connectedDeviceType
Classified(o) ==
    IF o.connectedDeviceType # <<>> /\ o.connectedDeviceType # None
    THEN IF o.connectedDeviceType = <<"Initiator">> THEN [o EXCEPT !.entitytype = <<"device">>]
         ELSE IF o.connectedDeviceType = <<"SWITCH">> THEN [o EXCEPT !.entitytype = <<"chassis">>]
         ELSE IF "Target" \in Range(o.connectedDeviceType)
              THEN [o EXCEPT !.entitytype = <<"storage">>]
         ELSE o
    ELSE o

\* The device name before it is cut to length
DeviceOf(o) ==
    IF o.remoteDevice # Absent /\ o.remotePort # Absent
    THEN IF (o.remoteDevice # <<>>) \/ (o.remoteDevice # <<"localhost">>)
         THEN o.remoteDevice
         ELSE o.remotePort
    ELSE IF o.remoteDevice # Absent /\ o.remoteDevice # <<>> THEN o.remoteDevice
    ELSE IF o.remotePort # Absent /\ o.remotePort # <<>> THEN o.remotePort
    ELSE none

DeviceNameCap == 50

\* device[:trunk_count] with trunk_count = -abs(len(device) - 50)
Truncated(device) ==
    IF Len(device) > DeviceNameCap
    THEN SubSeq(device, 1, Len(device) - (Len(device) - DeviceNameCap))
    ELSE device

\* The record as the formatter leaves it: entitytype and remoteNodeWwn are
\* assigned on the caller's dictionary.
FormatMutated(o) ==
    LET c == Classified(o)
    IN IF c.remoteNodeWwn = <<>> THEN [c EXCEPT !.remoteNodeWwn = none] ELSE c

\* value_id = f'{search_id}'
ReferenceName(search_id_table) == search_id_table[1]["name"]

ReferenceId(search_id_table) == Str(search_id_table[1]["ID"])

BaseColumns ==
    <<"runid", "id", "wwn", "portnumber", "slotnumber", "remotewwn", "ipaddress", "devicename">>

\* The first lookup of the formatter that fails, as the exception it raises;
\* "" when every lookup finds its row
FormatFailure(o, c) ==
    IF \E i \in 1..Len(format_id_tables) : o[FormatSourceLabel(format_id_tables[i])] = Absent
    THEN LET first == CHOOSE i \in 1..Len(format_id_tables) :
                        /\ o[FormatSourceLabel(format_id_tables[i])] = Absent
                           \/ Search(c, format_id_tables[i], "name",
                                     o[FormatSourceLabel(format_id_tables[i])]) = <<>>
                        /\ \A k \in 1..(i - 1) :
                              /\ o[FormatSourceLabel(format_id_tables[k])] # Absent
                              /\ Search(c, format_id_tables[k], "name",
                                        o[FormatSourceLabel(format_id_tables[k])]) # <<>>
         IN IF o[FormatSourceLabel(format_id_tables[first])] = Absent
            THEN "KeyError" ELSE "IndexError"
    ELSE IF \E i \in 1..Len(format_id_tables) :
               Search(c, format_id_tables[i], "name",
                      o[FormatSourceLabel(format_id_tables[i])]) = <<>>
         THEN "IndexError"
    ELSE IF \E k \in 1..Len(o.activeZones) : Search(c, "zone", "name", o.activeZones[k]) = <<>>
         THEN "IndexError"
    ELSE ""

\* sannaventity_data_formatted: the base columns, then one "<label>id" column
\* per reference table
SannavEntityDict(o, runid, c) ==
    Dict(BaseColumns \o [i \in 1..Len(format_id_tables) |-> ColumnId(format_id_tables[i])],
         <<runid, Str(o.id), o.wwn, Str(o.portNumber), Str(o.slotNumber), o.remoteNodeWwn,
           o.ipAddress, Truncated(DeviceOf(o))>>
           \o [i \in 1..Len(format_id_tables) |->
                 ReferenceId(Search(c, format_id_tables[i], "name",
                                    o[FormatSourceLabel(format_id_tables[i])]))])

ActiveZoneDictsOwnRun(o, runid, c) ==
    [k \in 1..Len(o.activeZones) |->
        Dict(<<"runid", "sannaventityid", "zoneid">>,
             <<Str(o.id + 7), Str(o.id), Str(Search(c, "zone", "name", o.activeZones[k])[1]["ID"])>>)]

\* An entry for the first active zone name of the record only
ActiveZoneDictsFirstZone(o, runid, c) ==
    <<Dict(<<"runid", "sannaventityid", "zoneid">>,
           <<runid, Str(o.id), Str(Search(c, "zone", "name", o.activeZones[1])[1]["ID"])>>)>>

\* activezones_results: one entry per active zone name of the record
ActiveZoneDicts(o, runid, c) ==
    [k \in 1..Len(o.activeZones) |->
        Dict(<<"runid", "sannaventityid", "zoneid">>,
             <<runid, Str(o.id), Str(Search(c, "zone", "name", o.activeZones[k])[1]["ID"])>>)]

\* What the task returns to gather: the formatted records, or the exception
FormatSannav(sannav_object, runid, c) ==
    LET o == FormatMutated(sannav_object)
    IN IF FormatFailure(o, c) # ""
       THEN Raised(FormatFailure(o, c))
       ELSE [sannav |-> SannavEntityDict(o, runid, c),
             activezones |-> ActiveZoneDicts(o, runid, c)]

----------------------------------------------------------------------------
(* update_sannav_data *)

MaxSannavRecords == 2
MaxClock == 1

sannav_common_id_tables == <<"activeZones", "fabric", "health", "status", "switch", "zone">>

\* The attribute of the record a reference table is filled from
SourceOf(table) ==
    CASE table = "switch" -> "switchName"
      [] table = "fabric" -> "fabricName"
      [] table = "zone" -> "zoneAlias"
      [] OTHER -> table

\* The store table a step of the loop writes to
TargetOf(table) == IF table = "activeZones" THEN "zone" ELSE table

\* "Add none values for attributes that may be missing in some records"
WithDefaults(item) ==
    [item EXCEPT !.zoneAlias = IF @ = Absent THEN none ELSE @,
                 !.entitytype = IF @ = Absent THEN none ELSE @,
                 !.activeZones = IF @ = AbsentList THEN <<none>> ELSE @,
                 !.remoteNodeWwn = IF @ = Absent THEN none ELSE @]

\* unique_source_values of a step, given the records and the module-level list
UniqueSourceValues(table, records, global_list) ==
    IF table = "activeZones"
    THEN UNION {Range(global_list[i]) : i \in 1..Len(global_list)}
    ELSE {records[i][SourceOf(table)] : i \in 1..Len(records)}

SannavLocals ==
    [exc |-> "", t |-> 1, pending |-> {}, runid |-> <<>>, i |-> 1, results |-> <<>>,
     sannav_object_insert_dict_list |-> <<>>, activezone_object_insert_dict_list |-> <<>>]

\* The defaults, and the entry into the first step of the reference-table loop:
\* the active zone lists of the records are appended to the module-level list.
SannavDefaults ==
    /\ pc = "sannav_begin"
    /\ LET records == [i \in 1..Len(src) |-> WithDefaults(src[i])]
           global_list == activezone_object_id_table_dict_list
                            \o [i \in 1..Len(records) |-> records[i].activeZones]
       IN /\ src' = records
          /\ activezone_object_id_table_dict_list' = global_list
          /\ loc' = [loc EXCEPT !.t = 1,
                        !.pending = UniqueSourceValues("activeZones", records, global_list)]
    /\ pc' = "sannav_ref"
    /\ UNCHANGED <<db, nextid, cache, log, family, storage_data_object, loaded, now, calls, bt, dirty, stale>>

\* One value of unique_source_values: search the cache, INSERT if not found
SannavRefValue ==
    /\ pc = "sannav_ref"
    /\ loc.pending # {}
    /\ \E record \in loc.pending :
          LET table == TargetOf(sannav_common_id_tables[loc.t])
              search_table == Search(cache, table, "name", record)
              st == InsertOneStmt(table, Dict(<<"name">>, <<record>>))
          IN /\ stale' = Looked(table)
             /\ IF search_table = <<>>
                THEN \E out \in Outcomes(st) :
                        /\ Exec(st, out)
                        /\ dirty' = IF out = "ok" THEN dirty \cup {table} ELSE dirty
                        /\ IF Returns(out)
                           THEN /\ pc' = pc
                                /\ loc' = [loc EXCEPT !.pending = @ \ {record}]
                           ELSE /\ pc' = "raised"
                                /\ loc' = [loc EXCEPT !.exc = out]
                ELSE /\ loc' = [loc EXCEPT !.pending = @ \ {record}]
                     /\ UNCHANGED <<db, nextid, log, pc, dirty>>
    /\ UNCHANGED <<cache, family, storage_data_object, loaded, now, activezone_object_id_table_dict_list, calls, src, bt>>

\* After the values of a step: reload the table, then the next step of the loop
SannavRefReload ==
    /\ pc = "sannav_ref"
    /\ loc.pending = {}
    /\ LET table == TargetOf(sannav_common_id_tables[loc.t])
       IN /\ cache' = Reloaded(cache, db, table)
          /\ dirty' = dirty \ {table}
    /\ IF loc.t < Len(sannav_common_id_tables)
       THEN /\ loc' = [loc EXCEPT !.t = @ + 1,
                          !.pending = UniqueSourceValues(sannav_common_id_tables[loc.t + 1], src,
                                                         activezone_object_id_table_dict_list)]
            /\ pc' = pc
       ELSE /\ loc' = loc
            /\ pc' = "sannav_runid"
    /\ UNCHANGED <<db, nextid, log, family, storage_data_object, loaded, now, activezone_object_id_table_dict_list, calls,
                   src, bt, stale>>

\* __format_current_datetime(): the clock reading as text
DateTime(t) == <<"t">> \o Str(t)

\* SELECT [ID] FROM ... [RUN] WHERE capturedatetime Like "<datetime>%"
RunSelect(formatted_datetime) ==
    [op |-> "SELECT", table |-> "run", like |-> formatted_datetime]

IsPrefix(p, s) == Len(p) <= Len(s) /\ SubSeq(s, 1, Len(p)) = p

RunRowsLike(d, formatted_datetime) ==
    SelectSeq(d["run"], LAMBDA r : IsPrefix(formatted_datetime, r["capturedatetime"]))

\* __get_runid and runid = f"{get_runid[0]['ID']}"
SannavRunId ==
    /\ pc = "sannav_runid"
    /\ \E t \in {now, now + 1} \cap (0..MaxClock) :
        LET formatted_datetime == DateTime(t)
            st == InsertOneStmt("run", Dict(<<"capturedatetime">>, <<formatted_datetime>>))
            q == RunSelect(formatted_datetime)
        IN /\ now' = t
           /\ \E out \in Outcomes(st), qout \in Outcomes(q) :
                LET d == IF out = "ok" THEN DbAfter(db, nextid, st) ELSE db
                    results == RunRowsLike(d, formatted_datetime)
                IN /\ db' = d
                   /\ nextid' = IF out = "ok" THEN IdsAfter(nextid, st) ELSE nextid
                   /\ dirty' = IF out = "ok" THEN dirty \cup {"run"} ELSE dirty
                   /\ IF ~Returns(out)
                      THEN /\ log' = Append(log, Logged(st, out))
                           /\ pc' = "raised"
                           /\ loc' = [loc EXCEPT !.exc = out]
                      ELSE /\ log' = log \o <<Logged(st, out), Logged(q, qout)>>
                           /\ IF ~Returns(qout)
                              THEN /\ pc' = "raised"
                                   /\ loc' = [loc EXCEPT !.exc = qout]
                              ELSE IF results = <<>>
                              THEN /\ pc' = "raised"
                                   /\ loc' = [loc EXCEPT !.exc = "IndexError"]
                              ELSE /\ pc' = "sannav_format"
                                   /\ loc' = [loc EXCEPT !.runid = Str(results[1]["ID"]),
                                                         !.i = 1, !.results = <<>>]
    /\ UNCHANGED <<cache, family, storage_data_object, loaded, activezone_object_id_table_dict_list, calls, src, bt, stale>>

\* One task of __sannav_lookup_async: the tasks never suspend, so they run one
\* after the other in the order of the records.
SannavFormatRecord ==
    /\ pc = "sannav_format"
    /\ loc.i <= Len(src)
    /\ loc' = [loc EXCEPT !.results = Append(@, FormatSannav(src[loc.i], loc.runid, cache)),
                          !.i = @ + 1]
    /\ src' = [src EXCEPT ![loc.i] = FormatMutated(@)]
    /\ stale' = stale \cup (dirty \cap Range(format_id_tables))
    /\ UNCHANGED <<db, nextid, cache, log, pc, family, storage_data_object, loaded, now,
                   activezone_object_id_table_dict_list, calls, bt, dirty>>

RECURSIVE Flatten(_)
Flatten(lists) == IF lists = <<>> THEN <<>> ELSE Head(lists) \o Flatten(Tail(lists))

\* After gather: d['sannav'] of an exception object raises TypeError; otherwise
\* the two insert lists are built and the activezones batch is started.
SannavCollect ==
    /\ pc = "sannav_format"
    /\ loc.i > Len(src)
    /\ IF \E k \in 1..Len(loc.results) : IsException(loc.results[k])
       THEN /\ pc' = "raised"
            /\ loc' = [loc EXCEPT !.exc = "TypeError"]
            /\ bt' = bt
       ELSE LET sannav_formatted == [k \in 1..Len(loc.results) |-> loc.results[k].sannav]
                activezones_formatted ==
                    Flatten([k \in 1..Len(loc.results) |-> loc.results[k].activezones])
            IN /\ loc' = [loc EXCEPT !.sannav_object_insert_dict_list = sannav_formatted,
                                     !.activezone_object_insert_dict_list = activezones_formatted]
               /\ IF Len(activezones_formatted) # 0
                  THEN /\ pc' = "batch_enter"
                       /\ bt' = BatchCall("activezones", activezones_formatted,
                                          DefaultBlockSize, "sannav_az_reload")
                  ELSE /\ pc' = "sannav_entities"
                       /\ bt' = bt
    /\ UNCHANGED <<db, nextid, cache, log, family, storage_data_object, loaded, now, activezone_object_id_table_dict_list,
                   calls, src, dirty, stale>>

\* The query __read_sql_tables_to_cache builds for activezones: the WHERE
\* clause is not an f-string, so RunId is compared with the text of the
\* expression; no row has that RunId.
ActiveZonesSelect == [op |-> "SELECT", table |-> "activezones"]

\* __read_sql_tables_to_cache('activezones') after the activezones batch
SannavAzReload ==
    /\ pc = "sannav_az_reload"
    /\ \E out \in Outcomes(ActiveZonesSelect) :
          /\ log' = Append(log, Logged(ActiveZonesSelect, out))
          /\ IF out = "ok"
             THEN /\ cache' = [cache EXCEPT !["activezones"] = <<>>]
                  /\ dirty' = dirty \ {"activezones"}
                  /\ pc' = "sannav_entities"
                  /\ loc' = loc
             ELSE /\ pc' = "raised"
                  /\ loc' = [loc EXCEPT !.exc = out]
                  /\ UNCHANGED <<cache, dirty>>
    /\ UNCHANGED <<db, nextid, family, storage_data_object, loaded, now, activezone_object_id_table_dict_list, calls, src,
                   bt, stale>>

\* "if len(sannav_object_insert_dict_list) != 0": the sannaventities batch
SannavEntities ==
    /\ pc = "sannav_entities"
    /\ IF Len(loc.sannav_object_insert_dict_list) # 0
       THEN /\ pc' = "batch_enter"
            /\ bt' = BatchCall("sannaventities", loc.sannav_object_insert_dict_list,
                               DefaultBlockSize, "sannav_timestamp")
       ELSE /\ pc' = "sannav_timestamp"
            /\ bt' = bt
    /\ UNCHANGED <<db, nextid, cache, log, family, storage_data_object, loaded, now, activezone_object_id_table_dict_list,
                   calls, src, loc, dirty, stale>>

\* The UpdateTracking timestamp, then return
SannavTimestamp ==
    /\ pc = "sannav_timestamp"
    /\ \E out \in Outcomes(TimestampStmt("sannaventities")) :
          /\ Exec(TimestampStmt("sannaventities"), out)
          /\ IF Returns(out)
             THEN pc' = "sannav_done" /\ loc' = loc
             ELSE pc' = "raised" /\ loc' = [loc EXCEPT !.exc = out]
    /\ UNCHANGED <<cache, family, storage_data_object, loaded, now, activezone_object_id_table_dict_list, calls, src, bt,
                   dirty, stale>>

\* update_sannav_data is called again in the same process
SannavAgain ==
    /\ pc = "sannav_done"
    /\ calls < MaxCalls
    /\ calls' = calls + 1
    /\ pc' = "sannav_begin"
    /\ loc' = SannavLocals
    /\ dirty' = {}
    /\ UNCHANGED <<db, nextid, cache, log, family, storage_data_object, loaded, now, activezone_object_id_table_dict_list,
                   src, bt, stale>>

----------------------------------------------------------------------------
(* Specification of update_sannav_data *)

SwitchNames == {<<"a">>, <<"b", Q>>}

\* Switchport records as the SAN-fabric API returns them
SannavSources ==
    { [id |-> 0, wwn |-> <<"w">>, portNumber |-> 1, slotNumber |-> 0, ipAddress |-> <<"i">>,
       connectedDeviceType |-> <<"Initiator">>, remoteDevice |-> <<"d">>, remotePort |-> <<"r">>,
       remoteNodeWwn |-> <<>>, switchName |-> sw, fabricName |-> <<"f">>,
       health |-> <<"h">>, status |-> <<"s">>, zoneAlias |-> za, zone |-> zo,
       activeZones |-> az, entitytype |-> Absent] :
        sw \in SwitchNames,
        za \in {Absent, <<"z">>},
        zo \in {Absent, <<"z">>},
        az \in {AbsentList, <<<<"z">>>>, <<<<"y">>, <<"z">>>>} }

\* The records of one fetch: the API gives each switchport its own id
Numbered(records) == [i \in 1..Len(records) |-> [records[i] EXCEPT !.id = i]]

NameRow(id, n) == [ID |-> id, name |-> n]

EntityTypes ==
    <<NameRow(1, none), NameRow(2, <<"device">>), NameRow(3, <<"chassis">>),
      NameRow(4, <<"storage">>)>>

\* Stores the function can start from
SannavStores ==
    { EmptyDb,
      [EmptyDb EXCEPT !["entitytype"] = EntityTypes],
      [EmptyDb EXCEPT !["entitytype"] = EntityTypes,
                      !["switch"] = <<NameRow(1, <<"a">>)>>,
                      !["fabric"] = <<NameRow(1, <<"f">>)>>,
                      !["health"] = <<NameRow(1, <<"h">>)>>,
                      !["status"] = <<NameRow(1, <<"s">>)>>,
                      !["zone"] = <<NameRow(1, <<"z">>)>>,
                      !["run"] = <<[ID |-> 1, capturedatetime |-> DateTime(0)]>>] }

InitSannav ==
    /\ db \in SannavStores
    /\ nextid = [t \in Tables |-> Len(db[t]) + 1]
    /\ cache = db
    /\ log = <<>>
    /\ family = "sannav"
    /\ storage_data_object = NoSources
    /\ loaded = Range(Storage_Id_Tables) \cup Range(Storage_Core_Tables)
    /\ calls = 1
    /\ \E records \in SeqsUpTo(SannavSources, MaxSannavRecords) : src = Numbered(records)
    /\ loc = SannavLocals
    /\ pc = "sannav_begin"
    /\ bt = NoFrame
    /\ dirty = {}
    /\ stale = {}
    /\ now = 0
    /\ activezone_object_id_table_dict_list = <<>>

\* No batch of this function holds an exception object: SannavCollect raises first.
NextSannav ==
    \/ SannavDefaults
    \/ SannavRefValue
    \/ SannavRefReload
    \/ SannavRunId
    \/ SannavFormatRecord
    \/ SannavCollect
    \/ BatchEnter
    \/ BatchEntry
    \/ BatchTail
    \/ SannavAzReload
    \/ SannavEntities
    \/ SannavTimestamp
    \/ SannavAgain

SpecSannav == InitSannav /\ [][NextSannav]_vars

----------------------------------------------------------------------------
(* Claims about update_sannav_data *)

ReferenceTables == {"fabric", "health", "status", "switch", "zone"}

NoDuplicateNames(rows) ==
    \A i, j \in 1..Len(rows) : rows[i]["name"] = rows[j]["name"] => i = j

\* The name an INSERT of one reference row carries
InsertedName(e) == LiteralValue(e.stmt.rows[1][1])

IsReferenceInsert(e, table) ==
    e.stmt.op = "INSERT" /\ e.stmt.table = table /\ e.out = "ok"

(* C7: when the reference-table loop of update_sannav_data has ended, for each
   of fabric, health, status, switch and zone every value the loop took from
   the records (for zone: the zone alias and every active-zone name) is found
   in the cache of that table, the cache equals the stored table, and no two
   rows of the table share a name; in the first call and in a repeated one. *)
C7_ReferenceKeysFoundOnce ==
    (family = "sannav" /\ pc = "sannav_runid") =>
        \A t \in ReferenceTables :
            /\ \A i \in 1..Len(src) : Search(cache, t, "name", src[i][SourceOf(t)]) # <<>>
            /\ t = "zone" =>
                  \A i \in 1..Len(src) : \A k \in 1..Len(src[i].activeZones) :
                      Search(cache, "zone", "name", src[i].activeZones[k]) # <<>>
            /\ cache[t] = db[t]
            /\ NoDuplicateNames(db[t])

\* The loop has ended in a repeated call, a zone name that is both the alias
\* and an active zone of a record was inserted by this process, and so was a
\* switch.
C7_Witness ==
    /\ family = "sannav"
    /\ pc = "sannav_runid"
    /\ calls = 2
    /\ \E i \in 1..Len(src) :
          /\ src[i].zoneAlias \in Range(src[i].activeZones)
          /\ \E j \in 1..Len(log) :
                IsReferenceInsert(log[j], "zone") /\ InsertedName(log[j]) = src[i].zoneAlias
    /\ \E j \in 1..Len(log) : IsReferenceInsert(log[j], "switch")

(* C8: whenever __format_sannav_insert_data is about to build the row of a
   record, for each of entitytype, fabric, health, status, switch and zone the
   record has the attribute the formatter looks up and the cache of the table
   holds a row of that name. *)
C8_ReferenceRowsPresent ==
    (family = "sannav" /\ pc = "sannav_format" /\ loc.i <= Len(src)) =>
        LET o == FormatMutated(src[loc.i])
        IN \A k \in 1..Len(format_id_tables) :
              /\ o[FormatSourceLabel(format_id_tables[k])] # Absent
              /\ Search(cache, format_id_tables[k], "name",
                        o[FormatSourceLabel(format_id_tables[k])]) # <<>>

AfterReferenceStep ==
    pc \in {"sannav_runid", "sannav_format", "batch_enter", "batch_loop", "sannav_az_reload",
            "sannav_entities", "sannav_timestamp", "sannav_done"}

(* C9: a switch name is inserted at most once by the process; once the
   reference-table loop has ended the store and the cache hold exactly one
   switch row for the switch of every record; and every sannaventities row
   written carries in switchNameid the text of the ID of the switch row named
   by its record, which is not the switch name. *)
C9_SwitchReferenceIsId ==
    family = "sannav" =>
        /\ \A i, j \in 1..Len(log) :
              (/\ IsReferenceInsert(log[i], "switch")
               /\ IsReferenceInsert(log[j], "switch")
               /\ InsertedName(log[i]) = InsertedName(log[j])) => i = j
        /\ AfterReferenceStep =>
              \A i \in 1..Len(src) :
                  /\ Len(Search(db, "switch", "name", src[i].switchName)) = 1
                  /\ Search(cache, "switch", "name", src[i].switchName)
                        = Search(db, "switch", "name", src[i].switchName)
        /\ \A k \in 1..Len(db["sannaventities"]) :
              LET r == db["sannaventities"][k]
              IN \E i \in 1..Len(src) :
                    /\ r["id"] = Str(src[i].id)
                    /\ r["switchNameid"] # src[i].switchName
                    /\ \E x \in 1..Len(db["switch"]) :
                          /\ db["switch"][x]["name"] = src[i].switchName
                          /\ r["switchNameid"] = Str(db["switch"][x]["ID"])

\* A sannaventities row is stored for a record whose switch this process
\* inserted, and it carries the ID of the inserted row.
C9_Witness ==
    /\ family = "sannav"
    /\ \E k \in 1..Len(db["sannaventities"]) : \E i \in 1..Len(src) : \E j \in 1..Len(log) :
          /\ db["sannaventities"][k]["id"] = Str(src[i].id)
          /\ IsReferenceInsert(log[j], "switch")
          /\ InsertedName(log[j]) = src[i].switchName
          /\ \E x \in 1..Len(db["switch"]) :
                /\ db["switch"][x]["name"] = src[i].switchName
                /\ db["sannaventities"][k]["switchNameid"] = Str(db["switch"][x]["ID"])

\* The last statement executed is the SELECT that reloads activezones, and it
\* succeeded
JustReloadedActiveZones ==
    /\ pc = "sannav_entities"
    /\ log # <<>>
    /\ log[Len(log)].stmt = ActiveZonesSelect
    /\ log[Len(log)].out = "ok"

(* C11: right after __read_sql_tables_to_cache(table) the cache of the table
   equals the rows the store holds for it: for the reference tables when the
   reference-table loop has reloaded them, and for activezones when the reload
   that follows the activezones batch has returned. *)
C11_CacheMirrorsStoreAfterLoad ==
    family = "sannav" =>
        /\ pc = "sannav_runid" =>
              \A t \in ReferenceTables : cache[t] = db[t]
        /\ JustReloadedActiveZones => cache["activezones"] = db["activezones"]

\* The value a row of an executed INSERT carries in column col
RowValue(st, row, col) == LiteralValue(row[CHOOSE j \in 1..Len(st.cols) : st.cols[j] = col])

IsFactInsert(e) ==
    e.stmt.op = "INSERT" /\ e.stmt.table \in {"sannaventities", "activezones"}

\* runid is the ID of a Run row that a SELECT of the current call read back
ReadBackInThisCall(runid) ==
    \E j \in 1..Len(log) :
        /\ log[j].call = calls
        /\ log[j].stmt.op = "SELECT"
        /\ log[j].stmt.table = "run"
        /\ log[j].out = "ok"
        /\ \E x \in 1..Len(db["run"]) :
              /\ Str(db["run"][x]["ID"]) = runid
              /\ IsPrefix(log[j].stmt.like, db["run"][x]["capturedatetime"])

(* C12: within one call of update_sannav_data every formatted sannaventities
   and activezones record, and every row of every INSERT the call executes
   against those two tables, carries one runid: the ID read back by
   __get_runid in that call. *)
C12_OneRunIdPerCall ==
    family = "sannav" =>
        /\ \A k \in 1..Len(loc.results) :
              ~IsException(loc.results[k]) =>
                  /\ Field(loc.results[k].sannav, "runid") = loc.runid
                  /\ \A z \in 1..Len(loc.results[k].activezones) :
                        Field(loc.results[k].activezones[z], "runid") = loc.runid
        /\ \A k \in 1..Len(loc.sannav_object_insert_dict_list) :
              Field(loc.sannav_object_insert_dict_list[k], "runid") = loc.runid
        /\ \A k \in 1..Len(loc.activezone_object_insert_dict_list) :
              Field(loc.activezone_object_insert_dict_list[k], "runid") = loc.runid
        /\ \A j \in 1..Len(log) :
              (log[j].call = calls /\ IsFactInsert(log[j])) =>
                  \A x \in 1..Len(log[j].stmt.rows) :
                      RowValue(log[j].stmt, log[j].stmt.rows[x], "runid") = loc.runid
        /\ loc.runid # <<>> => ReadBackInThisCall(loc.runid)

\* A repeated call has returned after writing two sannaventities rows and at
\* least one activezones row.
C12_Witness ==
    /\ family = "sannav"
    /\ pc = "sannav_done"
    /\ calls = 2
    /\ \E j \in 1..Len(log) :
          /\ log[j].call = 2
          /\ log[j].stmt.op = "INSERT"
          /\ log[j].stmt.table = "sannaventities"
          /\ log[j].out = "ok"
          /\ Len(log[j].stmt.rows) = 2
    /\ \E j \in 1..Len(log) :
          /\ log[j].call = 2
          /\ log[j].stmt.op = "INSERT"
          /\ log[j].stmt.table = "activezones"
          /\ log[j].out = "ok"

\* The ok INSERTs into run executed by the current call
RunInsertsOfCall ==
    {j \in 1..Len(log) : /\ log[j].call = calls
                         /\ log[j].stmt.op = "INSERT"
                         /\ log[j].stmt.table = "run"
                         /\ log[j].out = "ok"}

(* C13: once a call of update_sannav_data has its runid, the call has
   inserted exactly one Run row and the runid is the ID of that row, the
   newest of the table; so the run ids of successive calls strictly increase. *)
C13_RunIdIsOwnRow ==
    (family = "sannav" /\ loc.runid # <<>>) =>
        /\ Cardinality(RunInsertsOfCall) = 1
        /\ loc.runid = Str(nextid["run"] - 1)

\* The string literals of a statement
StmtLiterals(st) ==
    CASE st.op = "INSERT" ->
            UNION {Range(st.rows[i]) : i \in 1..Len(st.rows)}
      [] st.op = "UPDATE" ->
            {st.sets[j].lit : j \in 1..Len(st.sets)} \cup {st.where.lit}
      [] OTHER -> {}

(* C14: in every statement handed to the store by insert_data_to_table,
   insert_data_to_table_batch and update_data_table, every quote inside a
   column value is doubled, so that each value is one well-formed literal. *)
C14_QuotesDoubled ==
    \A j \in 1..Len(log) : \A l \in StmtLiterals(log[j].stmt) : LiteralOk(l)

----------------------------------------------------------------------------
(* Specification of __format_sannav_insert_data on one record *)

MaxNameLen == 52

\* A name of n characters; the shift makes its first and last characters differ
LongName(n, shift) == [i \in 1..n |-> Digits[((i + shift) % 10) + 1]]

DeviceNames ==
    {Absent, <<>>, <<"localhost">>}
        \cup {LongName(n, k) : n \in (DeviceNameCap - 1)..MaxNameLen, k \in 0..2}

PortNames == {Absent, <<>>, <<"r">>}

DeviceTypes ==
    {<<>>, None, <<"Initiator">>, <<"SWITCH">>, <<"FC", "Target">>, <<"other">>}

\* Records as update_sannav_data hands them to the formatter, defaults filled in
FormatSources ==
    { WithDefaults(
        [id |-> 1, wwn |-> <<"w">>, portNumber |-> 1, slotNumber |-> 0, ipAddress |-> <<"i">>,
         connectedDeviceType |-> ty, remoteDevice |-> dev, remotePort |-> port,
         remoteNodeWwn |-> <<>>, switchName |-> <<"a">>, fabricName |-> <<"f">>,
         health |-> <<"h">>, status |-> <<"s">>, zoneAlias |-> <<"z">>, zone |-> <<"z">>,
         activeZones |-> <<<<"z">>>>, entitytype |-> Absent]) :
        ty \in DeviceTypes, dev \in DeviceNames, port \in PortNames }

\* A cache that holds every reference row the records name
FormatCache ==
    [EmptyDb EXCEPT !["entitytype"] = EntityTypes,
                    !["switch"] = <<NameRow(1, <<"a">>)>>,
                    !["fabric"] = <<NameRow(1, <<"f">>)>>,
                    !["health"] = <<NameRow(1, <<"h">>)>>,
                    !["status"] = <<NameRow(1, <<"s">>)>>,
                    !["zone"] = <<NameRow(1, <<"z">>)>>,
                    !["run"] = <<[ID |-> 1, capturedatetime |-> DateTime(0)]>>]

FormatLocals == [exc |-> "", given |-> <<>>, result |-> <<>>]

\* One call of the formatter: its result, and the record as it leaves it
FormatCall ==
    /\ pc = "format_call"
    /\ loc' = [loc EXCEPT !.given = src[1],
                          !.result = FormatSannav(src[1], <<"1">>, cache)]
    /\ src' = <<FormatMutated(src[1])>>
    /\ pc' = "format_done"
    /\ UNCHANGED <<db, nextid, cache, log, family, storage_data_object, loaded, now, activezone_object_id_table_dict_list,
                   calls, bt, dirty, stale>>

InitFormat ==
    /\ db = FormatCache
    /\ nextid = [t \in Tables |-> Len(db[t]) + 1]
    /\ cache = db
    /\ log = <<>>
    /\ family = "format"
    /\ storage_data_object = NoSources
    /\ loaded = Range(Storage_Id_Tables) \cup Range(Storage_Core_Tables)
    /\ calls = 1
    /\ \E o \in FormatSources : src = <<o>>
    /\ loc = FormatLocals
    /\ pc = "format_call"
    /\ bt = NoFrame
    /\ dirty = {}
    /\ stale = {}
    /\ now = 0
    /\ activezone_object_id_table_dict_list = <<>>

NextFormat == FormatCall

SpecFormat == InitFormat /\ [][NextFormat]_vars

----------------------------------------------------------------------------
(* Claims about __format_sannav_insert_data *)

Formatted == family = "format" /\ pc = "format_done" /\ ~IsException(loc.result)

LastChars(s, n) == SubSeq(s, Len(s) - n + 1, Len(s))

(* C15: the devicename of the formatted row is the last 50 characters of the
   device name the formatter resolved when that name is longer than 50
   characters, and the name itself otherwise. *)
C15_DeviceNameLastFifty ==
    Formatted =>
        LET device == DeviceOf(loc.given)
        IN Field(loc.result.sannav, "devicename")
              = IF Len(device) > DeviceNameCap THEN LastChars(device, DeviceNameCap) ELSE device

\* remoteDevice when it is non-empty and not 'localhost', otherwise remotePort
\* when it is present and non-empty, otherwise 'none'
PreferredDevice(o) ==
    IF o.remoteDevice # Absent /\ o.remoteDevice # <<>> /\ o.remoteDevice # <<"localhost">>
    THEN o.remoteDevice
    ELSE IF o.remotePort # Absent /\ o.remotePort # <<>> THEN o.remotePort
    ELSE none

(* C17: the device name the formatter stores (before the cut to 50 characters)
   is remoteDevice when that is non-empty and not 'localhost', otherwise
   remotePort when it is present and non-empty, otherwise 'none'. *)
C17_DeviceNameOrder ==
    Formatted =>
        Field(loc.result.sannav, "devicename") = Truncated(PreferredDevice(loc.given))

----------------------------------------------------------------------------
(* Specification of __format_customer_insert_data on one record *)

\* Values of the live flag L of the export
LiveFlags == {<<"Y">>, <<"N">>, <<"y">>, <<>>, <<"Y", "Y">>, None}

WideCustomerSources ==
    { [ID |-> id, NAME |-> n, L |-> l, STACKNUMBER |-> sn] :
        id \in {<<"7">>, <<"8">>, <<"9">>},
        n \in {<<"a">>, <<"o", Q, "b">>, None},
        l \in LiveFlags,
        sn \in {<<"3">>, <<"4">>} }

InitCustomerFormat ==
    /\ db = EmptyDb
    /\ nextid = FreshIds
    /\ cache = db
    /\ log = <<>>
    /\ family = "customer"
    /\ storage_data_object = NoSources
    /\ loaded = Range(Storage_Id_Tables) \cup Range(Storage_Core_Tables)
    /\ calls = 1
    /\ \E c \in WideCustomerSources : src = <<c>>
    /\ loc = CustomerLocals
    /\ pc = "cust_format"
    /\ bt = NoFrame
    /\ dirty = {}
    /\ stale = {}
    /\ now = 0
    /\ activezone_object_id_table_dict_list = <<>>

NextCustomerFormat == CustomerFormat

SpecCustomerFormat == InitCustomerFormat /\ [][NextCustomerFormat]_vars

(* C16: every customer record the formatter returns has status '1' when the
   live flag L of the record is 'Y' and '0' for every other value of L. *)
C16_StatusFromLiveFlag ==
    (family = "customer" /\ pc = "cust_clear") =>
        \A k \in 1..Len(loc.results) :
            ~IsException(loc.results[k]) =>
                Field(loc.results[k], "status")
                    = IF src[k].L = <<"Y">> THEN <<"1">> ELSE <<"0">>

\* A record whose flag is neither 'Y' nor 'N' has been formatted with status '0'.
C16_Witness ==
    /\ family = "customer"
    /\ pc = "cust_clear"
    /\ Len(loc.results) = 1
    /\ ~IsException(loc.results[1])
    /\ src[1].L = <<"y">>
    /\ Field(loc.results[1], "status") = <<"0">>

\* The sannaventities records of the tasks that did not fail, in order
FormattedWithoutFailures(results) ==
    LET kept == SelectSeq(results, LAMBDA d : ~IsException(d))
    IN [k \in 1..Len(kept) |-> kept[k].sannav]

(* C19: once every formatting task of the fan-out has ended and the results
   have been collected, the list handed to the batched writer holds the
   sannaventities record of every task that did not fail: a failed task drops
   its own record only. *)
C19_FailedRecordOnlyDropped ==
    (/\ family = "sannav"
     /\ pc # "sannav_format"
     /\ Len(src) > 0
     /\ Len(loc.results) = Len(src)) =>
        loc.sannav_object_insert_dict_list = FormattedWithoutFailures(loc.results)

----------------------------------------------------------------------------
(* update_data_from_sources and get_all_storage_data *)

PassLocals == [exc |-> "", fetch |-> ""]

\* The loop over Storage_Id_Tables alone, without the loop over Storage_Core_Tables
PassLoadCacheIdTablesOnly ==
    /\ pc = "pass_load"
    /\ cache' = [t \in Tables |-> IF t \in Range(Storage_Id_Tables) THEN db[t] ELSE cache[t]]
    /\ loaded' = Range(Storage_Id_Tables)
    /\ pc' = "pass_fetch"
    /\ UNCHANGED <<db, nextid, log, family, storage_data_object, now, loc,
                   activezone_object_id_table_dict_list, calls, src, bt, dirty, stale>>

\* The loop over Storage_Id_Tables and Storage_Core_Tables that fills the
\* cache; activezones is read with the query of ActiveZonesSelect.
PassLoadCache ==
    /\ pc = "pass_load"
    /\ \E out \in Outcomes(ActiveZonesSelect) :
          /\ log' = Append(log, Logged(ActiveZonesSelect, out))
          /\ IF out = "ok"
             THEN /\ cache' = [t \in Tables |->
                                 IF t = "activezones" THEN <<>>
                                 ELSE IF t \in Range(Storage_Id_Tables) \cup Range(Storage_Core_Tables)
                                      THEN db[t]
                                 ELSE cache[t]]
                  /\ loaded' = Range(Storage_Id_Tables) \cup Range(Storage_Core_Tables)
                  /\ pc' = "pass_fetch"
                  /\ loc' = loc
             ELSE /\ cache' = [t \in Tables |->
                                 IF t \in Range(Storage_Id_Tables) THEN db[t] ELSE cache[t]]
                  /\ loaded' = Range(Storage_Id_Tables)
                  /\ pc' = "raised"
                  /\ loc' = [loc EXCEPT !.exc = out]
    /\ UNCHANGED <<db, nextid, family, storage_data_object, now,
                   activezone_object_id_table_dict_list, calls, src, bt, dirty, stale>>

\* What the three sources can return in one pass
PassCustomerLists ==
    { <<>>,
      <<[ID |-> <<"7">>, NAME |-> <<"a">>, L |-> <<"Y">>, STACKNUMBER |-> <<"3">>]>>,
      <<[ID |-> <<"7">>, NAME |-> <<"a">>, L |-> <<"Y">>, STACKNUMBER |-> <<"3">>],
        [ID |-> <<"8">>, NAME |-> None, L |-> <<"N">>, STACKNUMBER |-> <<"3">>]>> }

PassStackLists ==
    { <<r>> : r \in {x \in StackSources :
                        /\ x.stack = <<"7">>
                        /\ x.local_location = <<"A">>
                        /\ x.remote_location = <<"A">>
                        /\ x.prod_webpool = <<"w">>} }

PassSannavLists ==
    { Numbered(<<r>>) : r \in {x \in SannavSources :
                                  /\ x.switchName = <<"a">>
                                  /\ x.zoneAlias = <<"z">>
                                  /\ x.activeZones = <<<<"z">>>>} }

\* get_all_storage_data: the customer export is read, then the stack data,
\* then the switchports.  open() of the export raises OSError, and a failed
\* SAN-fabric login raises ValueError; the handlers around them name
\* ResourceWarning only, and the statement after each handler reads a name
\* the failed call never bound.  When all three are fetched, update_stack_data
\* starts.
PassFetch ==
    /\ pc = "pass_fetch"
    /\ \E customers \in PassCustomerLists, stacks \in PassStackLists, sannav \in PassSannavLists,
          failed \in {"", "customers", "sannav"} :
          CASE failed = "customers" ->
                  /\ storage_data_object' = storage_data_object
                  /\ loc' = [loc EXCEPT !.exc = "OSError", !.fetch = failed]
                  /\ pc' = "raised"
                  /\ src' = src
            [] failed = "sannav" ->
                  /\ storage_data_object' =
                        [storage_data_object EXCEPT !.customers = customers, !.stacks = stacks]
                  /\ loc' = [loc EXCEPT !.exc = "ValueError", !.fetch = failed]
                  /\ pc' = "raised"
                  /\ src' = src
            [] OTHER ->
                  /\ storage_data_object' =
                        [customers |-> customers, stacks |-> stacks, sannav |-> sannav]
                  /\ loc' = StackLocals
                  /\ pc' = "stack_record"
                  /\ src' = stacks
    /\ UNCHANGED <<db, nextid, cache, log, family, loaded, now,
                   activezone_object_id_table_dict_list, calls, bt, dirty, stale>>

PassCustomersAlsoLast ==
    /\ pc \in {"stack_done", "sannav_done"}
    /\ src' = storage_data_object.customers
    /\ loc' = [CustomerLocals EXCEPT !.before = Len(db["customers"])]
    /\ dirty' = {}
    /\ pc' = "cust_format"
    /\ UNCHANGED <<db, nextid, cache, log, family, storage_data_object, loaded, now,
                   activezone_object_id_table_dict_list, calls, bt, stale>>

\* update_stack_data has returned: update_customer_data starts
PassCustomers ==
    /\ pc = "stack_done"
    /\ src' = storage_data_object.customers
    /\ loc' = [CustomerLocals EXCEPT !.before = Len(db["customers"])]
    /\ dirty' = {}
    /\ pc' = "cust_format"
    /\ UNCHANGED <<db, nextid, cache, log, family, storage_data_object, loaded, now,
                   activezone_object_id_table_dict_list, calls, bt, stale>>

\* update_customer_data has returned: update_sannav_data starts
PassSannav ==
    /\ pc = "cust_done"
    /\ src' = storage_data_object.sannav
    /\ loc' = SannavLocals
    /\ dirty' = {}
    /\ pc' = "sannav_begin"
    /\ UNCHANGED <<db, nextid, cache, log, family, storage_data_object, loaded, now,
                   activezone_object_id_table_dict_list, calls, bt, stale>>

----------------------------------------------------------------------------
(* Specification of update_data_from_sources *)

\* Stores a pass can start from: reference data only, or rows of earlier passes
PassStores ==
    { [EmptyDb EXCEPT !["entitytype"] = EntityTypes],
      [EmptyDb EXCEPT !["entitytype"] = EntityTypes,
                      !["stacks"] = <<StackRow(1, <<"7">>, <<"A">>, <<"A">>, <<"A">>)>>,
                      !["webpools"] = <<WebpoolRow(1, <<"p">>, <<"7">>)>>,
                      !["webs"] = <<WebRow(1, <<"w">>, <<"1">>)>>,
                      !["customers"] = <<CustomerRow(1, <<"5">>, <<"z">>, <<"1">>, <<"3">>)>>,
                      !["switch"] = <<NameRow(1, <<"a">>)>>,
                      !["fabric"] = <<NameRow(1, <<"f">>)>>,
                      !["health"] = <<NameRow(1, <<"h">>)>>,
                      !["status"] = <<NameRow(1, <<"s">>)>>,
                      !["zone"] = <<NameRow(1, <<"z">>)>>] }

InitPass ==
    /\ db \in PassStores
    /\ nextid = [t \in Tables |-> Len(db[t]) + 1]
    /\ cache = EmptyDb
    /\ log = <<>>
    /\ family = "pass"
    /\ storage_data_object = NoSources
    /\ loaded = {}
    /\ calls = 1
    /\ src = <<>>
    /\ loc = PassLocals
    /\ pc = "pass_load"
    /\ bt = NoFrame
    /\ dirty = {}
    /\ stale = {}
    /\ now = 0
    /\ activezone_object_id_table_dict_list = <<>>

NextPass ==
    \/ PassLoadCache
    \/ PassFetch
    \/ StackRecord
    \/ StackWebpool
    \/ StackWeb
    \/ StackWebsReload
    \/ StackFinish
    \/ PassCustomers
    \/ CustomerFormat
    \/ CustomerClear
    \/ BatchEnter
    \/ BatchEntry
    \/ BatchEntryRaises
    \/ BatchTail
    \/ CustomerReload
    \/ PassSannav
    \/ SannavDefaults
    \/ SannavRefValue
    \/ SannavRefReload
    \/ SannavRunId
    \/ SannavFormatRecord
    \/ SannavCollect
    \/ SannavAzReload
    \/ SannavEntities
    \/ SannavTimestamp

SpecPass == InitPass /\ [][NextPass]_vars

----------------------------------------------------------------------------
(* Claims about update_data_from_sources *)

StackFamilyTables == {"stacks", "webpools", "webs"}

\* A statement of the stack family was refused by the store
StackStatementFailed ==
    \E j \in 1..Len(log) :
        log[j].stmt.table \in StackFamilyTables /\ log[j].out # "ok"

\* An exception has left update_data_from_sources: the pass is over
PassAborted == family = "pass" /\ pc = "raised"

(* C18: a statement of the stack, webpool and web reconciliation that fails
   does not end the pass: no exception leaves update_data_from_sources, so
   the customer and the SAN-fabric families are still reached. *)
C18_StackFailureDoesNotAbort == StackStatementFailed => ~PassAborted

(* C20: a failed SAN-fabric fetch in get_all_storage_data does not end the
   pass: no exception leaves update_data_from_sources, so the stack and the
   customer families, whose data was fetched, are still reconciled. *)
C20_FetchFailureDoesNotAbort ==
    (family = "pass" /\ loc.fetch = "sannav") => ~PassAborted

----------------------------------------------------------------------------
(* Further claims about update_sannav_data *)

\* In call c the INSERT into run or the SELECT that reads the id back failed
RunAllocationFailedIn(c) ==
    \E j \in 1..Len(log) :
        log[j].call = c /\ log[j].stmt.table = "run" /\ log[j].out # "ok"

(* C21: in a call of update_sannav_data whose Run id allocation failed (the
   INSERT into run or the read-back of the id), no INSERT into sannaventities
   or activezones is executed, and the call has ended. *)
C21_NoFactRowsWithoutRunId ==
    family = "sannav" =>
        \A c \in 1..calls :
            RunAllocationFailedIn(c) =>
                /\ \A j \in 1..Len(log) : log[j].call = c => ~IsFactInsert(log[j])
                /\ c = calls => pc = "raised"

\* The first call wrote fact rows; the allocation failed in the repeated call,
\* which left the fact tables as the first call wrote them.
C21_Witness ==
    /\ family = "sannav"
    /\ calls = 2
    /\ pc = "raised"
    /\ RunAllocationFailedIn(2)
    /\ \E j \in 1..Len(log) : log[j].call = 1 /\ IsFactInsert(log[j]) /\ log[j].out = "ok"
    /\ db["sannaventities"] # <<>>

----------------------------------------------------------------------------
(* Further claims about update_data_from_sources *)

\* The step of the pass the j-th executed statement belongs to: 0 the cache
\* load, 2 the stack family, 3 the customer family, 4 the reference rows of the
\* SAN-fabric family, 5 the Run id, 6 the two fact batches.  (Step 1, the
\* fetch, executes no statement.)
StepOf(j) ==
    LET st == log[j].stmt
    IN CASE st.op = "SELECT" /\ st.table = "activezones" -> IF j = 1 THEN 0 ELSE 6
         [] st.op = "TIMESTAMP" ->
               IF st.label = "stacks" THEN 2 ELSE IF st.label = "customers" THEN 3 ELSE 6
         [] st.table \in StackFamilyTables -> 2
         [] st.table = "customers" -> 3
         [] st.table \in ReferenceTables -> 4
         [] st.table = "run" -> 5
         [] OTHER -> 6

CacheLoaded ==
    \A t \in (Range(Storage_Id_Tables) \cup Range(Storage_Core_Tables)) \ {"activezones"} :
        cache[t] = db[t]

(* C22: in a pass of update_data_from_sources the cache is loaded before the
   sources are fetched, the sources are fetched before any family writes, and
   the statements executed follow the order stack family, customer family,
   Run id, fact batches: no statement of a later step precedes a statement of
   an earlier one. *)
C22_StepsInOrder ==
    family = "pass" =>
        /\ \A i, j \in 1..Len(log) : i < j => StepOf(i) <= StepOf(j)
        /\ pc = "pass_fetch" => (CacheLoaded /\ storage_data_object = NoSources)
        /\ storage_data_object # NoSources => (log # <<>> /\ StepOf(1) = 0)
        /\ (\E j \in 1..Len(log) : StepOf(j) >= 2) => storage_data_object.stacks # <<>>

\* A pass has ended having written for every step
C22_Witness ==
    /\ family = "pass"
    /\ pc = "sannav_done"
    /\ \A step \in {0, 2, 3, 4, 5, 6} :
          \E j \in 1..Len(log) : StepOf(j) = step /\ log[j].out = "ok"
    /\ \E j \in 1..Len(log) : log[j].stmt.table = "sannaventities" /\ log[j].out = "ok"

----------------------------------------------------------------------------
(* Further claims about insert_data_to_table_batch *)

\* The call was given a non-empty list of dictionaries and has ended
BatchEndedOnRows ==
    /\ family = "batch"
    /\ pc \in {"done", "raised"}
    /\ bt.records # <<>>
    /\ \A k \in 1..Len(bt.records) : ~IsException(bt.records[k])

\* The rows of the statements handed to the store, in the order of execution
RowsExecuted == Flatten([j \in 1..Len(log) |-> log[j].stmt.rows])

\* The rows of the input list, in input order
RowsGiven ==
    [k \in 1..Len(bt.records) |->
        BatchRowValues(bt.records[k], InsertColumns(bt.records[1].cols))]

(* C23: when insert_data_to_table_batch has ended, the rows of the statements
   it executed, read in execution order, are exactly the input rows in input
   order: every row is in one statement, none twice, also when a flush has
   failed. *)
C23_EveryRowFlushedOnce == BatchEndedOnRows => RowsExecuted = RowsGiven

(* C24: in insert_data_to_table_batch the accumulated block never holds more
   than tranaction_block_size rows and holds as many rows as were counted;
   the loop takes up a row only on a block that is not full, so a full block
   has been flushed (one execute and commit) and emptied first; and every
   statement executed holds exactly tranaction_block_size rows, except the
   last one, which holds between one row and that many. *)
C24_BlocksOfBatchSize ==
    (family = "batch" /\ pc \in {"batch_loop", "done", "raised"} /\ bt.columns # <<>>) =>
        /\ Len(bt.block) <= bt.size
        /\ Len(bt.block) = bt.count
        /\ pc = "batch_loop" => Len(bt.block) < bt.size
        /\ \A j \in 1..Len(log) :
              /\ Len(log[j].stmt.rows) >= 1
              /\ Len(log[j].stmt.rows) <= bt.size
              /\ j < Len(log) => Len(log[j].stmt.rows) = bt.size

\* The call has returned after a full block and a shorter last one
C24_Witness ==
    /\ family = "batch"
    /\ pc = "done"
    /\ bt.size >= 2
    /\ Len(log) >= 2
    /\ Len(log[1].stmt.rows) = bt.size
    /\ Len(log[Len(log)].stmt.rows) < bt.size
    /\ \A j \in 1..Len(log) : log[j].out = "ok"

----------------------------------------------------------------------------
(* Cache loads and cache lookups within a pass *)

\* The cached tables the next step of the running function searches:
\* update_stack_data searches stacks, webpools and webs; the reference loop of
\* update_sannav_data searches the table of its current step; the formatter
\* searches its six id tables and zone.
ConsultedNext ==
    CASE pc = "stack_record" -> {"stacks"}
      [] pc = "stack_webpool" -> {"webpools"}
      [] pc = "stack_web" -> {"webs"}
      [] pc = "sannav_ref" -> {TargetOf(sannav_common_id_tables[loc.t])}
      [] pc = "sannav_format" -> Range(format_id_tables) \cup {"zone"}
      [] OTHER -> {}

(* C25: in a pass of update_data_from_sources, whenever update_stack_data,
   update_sannav_data or __format_sannav_insert_data is about to search the
   cache of a table, the loops at the start of the pass have already read that
   table into the cache; while those loops have not run, no search is due. *)
C25_LoadedBeforeLookup ==
    family = "pass" =>
        /\ ConsultedNext \subseteq loaded
        /\ pc = "pass_load" => (loaded = {} /\ ConsultedNext = {})

\* A pass has formatted a switchport record, after searching every table on the way
C25_Witness ==
    /\ family = "pass"
    /\ pc = "sannav_format"
    /\ loc.i > 1
    /\ loaded = Range(Storage_Id_Tables) \cup Range(Storage_Core_Tables)
    /\ \E j \in 1..Len(log) : log[j].stmt.table = "webs" /\ log[j].out = "ok"
    /\ \E j \in 1..Len(log) : log[j].stmt.table = "zone" /\ log[j].out = "ok"

----------------------------------------------------------------------------
(* The fact rows update_sannav_data writes *)

IsOkInsertOf(e, table, c) ==
    e.call = c /\ e.stmt.op = "INSERT" /\ e.stmt.table = table /\ e.out = "ok"

\* The id values of the sannaventities rows call c has written, in the order written
EntityIdsWritten(c) ==
    Flatten([j \in 1..Len(log) |->
                IF IsOkInsertOf(log[j], "sannaventities", c)
                THEN [x \in 1..Len(log[j].stmt.rows) |->
                         RowValue(log[j].stmt, log[j].stmt.rows[x], "id")]
                ELSE <<>>])

\* update_sannav_data has passed the sannaventities batch of the current call
EntitiesBatchPassed == pc \in {"sannav_timestamp", "sannav_done"}

(* C26: when a call of update_sannav_data has passed its sannaventities batch,
   so that every reference name was found and every flush succeeded, the
   sannaventities rows it has written are one per switchport record, in the
   order of the records; and no UPDATE of sannaventities is ever executed. *)
C26_OneEntityRowPerRecord ==
    family = "sannav" =>
        /\ \A j \in 1..Len(log) :
              ~(log[j].stmt.op = "UPDATE" /\ log[j].stmt.table = "sannaventities")
        /\ EntitiesBatchPassed =>
              EntityIdsWritten(calls) = [i \in 1..Len(src) |-> Str(src[i].id)]

\* A call has written the rows of two records
C26_Witness ==
    /\ family = "sannav"
    /\ pc = "sannav_done"
    /\ Len(src) = 2
    /\ EntityIdsWritten(calls) = <<Str(1), Str(2)>>
    /\ Len(db["sannaventities"]) >= 2

\* <<runid, sannaventityid, zoneid>> of the activezones rows call c has written
ZoneRowsWritten(c) ==
    Flatten([j \in 1..Len(log) |->
                IF IsOkInsertOf(log[j], "activezones", c)
                THEN [x \in 1..Len(log[j].stmt.rows) |->
                         <<RowValue(log[j].stmt, log[j].stmt.rows[x], "runid"),
                           RowValue(log[j].stmt, log[j].stmt.rows[x], "sannaventityid"),
                           RowValue(log[j].stmt, log[j].stmt.rows[x], "zoneid")>>]
                ELSE <<>>])

\* The cached ID of the zone row with that name
CachedZoneId(zone_name) == Str(Search(cache, "zone", "name", zone_name)[1]["ID"])

\* One triple per record and per name of its activeZones list
ZoneRowsOf(record) ==
    [k \in 1..Len(record.activeZones) |->
        <<loc.runid, Str(record.id), CachedZoneId(record.activeZones[k])>>]

\* update_sannav_data has passed the activezones batch of the current call
ZonesBatchPassed ==
    \/ pc \in {"sannav_az_reload", "sannav_entities", "sannav_timestamp", "sannav_done"}
    \/ pc \in {"batch_enter", "batch_loop"} /\ bt.table = "sannaventities"

(* C27: for every switchport record the formatter returns one activezones entry
   per name of the record's activeZones list (the list ['none'] when the record
   had none), with the run id of the call, the id of the record and the cached
   ID of the zone of that name; and when the call has passed its activezones
   batch the activezones rows it has written are exactly these, record by
   record and name by name. *)
C27_OneZoneRowPerName ==
    family = "sannav" =>
        /\ \A k \in 1..Len(loc.results) :
              ~IsException(loc.results[k]) =>
                  /\ src[k].activeZones # AbsentList
                  /\ [z \in 1..Len(loc.results[k].activezones) |->
                         <<Field(loc.results[k].activezones[z], "runid"),
                           Field(loc.results[k].activezones[z], "sannaventityid"),
                           Field(loc.results[k].activezones[z], "zoneid")>>] = ZoneRowsOf(src[k])
        /\ ZonesBatchPassed =>
              ZoneRowsWritten(calls) = Flatten([i \in 1..Len(src) |-> ZoneRowsOf(src[i])])

\* A call has written the row of a record that had no activeZones and the two
\* rows of a record with two active zones
C27_Witness ==
    /\ family = "sannav"
    /\ pc = "sannav_done"
    /\ Len(src) = 2
    /\ src[1].activeZones = <<none>>
    /\ Len(src[2].activeZones) = 2
    /\ Len(ZoneRowsWritten(calls)) = 3
    /\ Len(db["activezones"]) >= 3

----------------------------------------------------------------------------
(* Parents of webpools and webs, and the scope of the stacks UPDATE *)

IsOkInsertInto(e, table) == e.stmt.op = "INSERT" /\ e.stmt.table = table /\ e.out = "ok"

\* A source record names the webpool at one of its two locations
NamesWebpool(record, name) ==
    \E l \in 1..Len(webpool_location_check) :
        WebpoolName(record, webpool_location_check[l]) = name

\* A source record lists the web under the webpool of that name
ListsWeb(record, name, web) ==
    \E l \in 1..Len(webpool_location_check) :
        /\ WebpoolName(record, webpool_location_check[l]) = name
        /\ web \in Range(Split(WebpoolWebs(record, webpool_location_check[l])))

\* Every webpools row inserted carries the ID of the cached stacks row of the
\* stack of a source record that names the webpool
WebpoolsParentIsSurrogateId ==
    \A j \in 1..Len(log) :
        IsOkInsertInto(log[j], "webpools") =>
            \E r \in 1..Len(src), x \in 1..Len(cache["stacks"]) :
                /\ NamesWebpool(src[r], RowValue(log[j].stmt, log[j].stmt.rows[1], "name"))
                /\ cache["stacks"][x]["Stack"] = src[r].stack
                /\ RowValue(log[j].stmt, log[j].stmt.rows[1], "stackid")
                      = Str(cache["stacks"][x]["ID"])

\* Every webs row inserted carries the ID of the cached webpools row of a
\* webpool under which a source record lists the web
WebsParentIsSurrogateId ==
    \A j \in 1..Len(log) :
        IsOkInsertInto(log[j], "webs") =>
            \E r \in 1..Len(src), x \in 1..Len(cache["webpools"]) :
                /\ ListsWeb(src[r], cache["webpools"][x]["name"],
                            RowValue(log[j].stmt, log[j].stmt.rows[1], "name"))
                /\ RowValue(log[j].stmt, log[j].stmt.rows[1], "webpoolid")
                      = Str(cache["webpools"][x]["ID"])

(* C28: every webpools row update_stack_data inserts carries as stackid the ID
   of the cached stacks row whose Stack is the record's stack, and every webs
   row it inserts carries as webpoolid the ID of the cached webpools row with
   the record's webpool name. *)
C28_ParentIsSurrogateId ==
    family = "stack" => (WebpoolsParentIsSurrogateId /\ WebsParentIsSurrogateId)

ChildTables == {"webpools", "webs"}

(* C29: update_stack_data never executes an UPDATE against webpools or webs,
   and no step of it changes a row those tables already hold: rows are only
   added, also when the incoming parent of a cached webpool or web differs
   from the stored one. *)
C29_ChildrenNeverUpdated ==
    [][family = "stack" =>
        /\ \A j \in 1..Len(log') :
              ~(log'[j].stmt.op = "UPDATE" /\ log'[j].stmt.table \in ChildTables)
        /\ \A t \in ChildTables :
              /\ Len(db'[t]) >= Len(db[t])
              /\ \A x \in 1..Len(db[t]) : db'[t][x] = db[t][x]
    ]_vars

\* A record of another stack names a cached webpool: the step has gone on to
\* the webs with the stored row as it was and its stackid not the record's stack
C29_Witness ==
    /\ family = "stack"
    /\ pc = "stack_web"
    /\ loc.w = 1
    /\ \A j \in 1..Len(log) : log[j].stmt.table # "webpools"
    /\ \E x \in 1..Len(db["webpools"]) :
          /\ db["webpools"][x]["name"] = WebpoolName(src[loc.r], webpool_location_check[loc.l])
          /\ db["webpools"][x]["stackid"] # src[loc.r].stack
          /\ loc.webpoolid = Str(db["webpools"][x]["ID"])

(* C30: a step of update_stack_data that executes an UPDATE of stacks for a
   record names the record's stack in the WHERE clause, changes no stacks row
   whose Stack differs from the record's stack, adds and removes no row, and
   leaves every other table as it was. *)
C30_UpdateScopedByStack ==
    [][(family = "stack" /\ OneMoreStatement /\ IsStackUpdate(log'[Len(log')])) =>
        /\ log'[Len(log')].stmt.where = [col |-> "Stack", lit |-> Quoted(src[loc.r].stack)]
        /\ \A t \in Tables \ {"stacks"} : db'[t] = db[t]
        /\ nextid' = nextid
        /\ Len(db'["stacks"]) = Len(db["stacks"])
        /\ \A x \in 1..Len(db["stacks"]) :
              db["stacks"][x]["Stack"] # src[loc.r].stack => db'["stacks"][x] = db["stacks"][x]
    ]_vars

\* An UPDATE has changed the row of the record's stack while the store holds
\* the row of another stack, which is as the cache has it
C30_Witness ==
    /\ family = "stack"
    /\ pc = "stack_webpool"
    /\ loc.l = 1
    /\ log # <<>>
    /\ IsStackUpdate(log[Len(log)])
    /\ log[Len(log)].out = "ok"
    /\ Len(db["stacks"]) = Len(cache["stacks"])
    /\ \E x, y \in 1..Len(db["stacks"]) :
          /\ db["stacks"][x]["Stack"] = src[loc.r].stack
          /\ db["stacks"][x] # cache["stacks"][x]
          /\ db["stacks"][y]["Stack"] # src[loc.r].stack
          /\ db["stacks"][y] = cache["stacks"][y]

----------------------------------------------------------------------------
(* The UpdateTracking timestamps of a pass *)

RefreshLabels == {"stacks", "customers", "sannaventities"}

\* The tables a family writes to
FamilyTables(label) ==
    CASE label = "stacks" -> StackFamilyTables
      [] label = "customers" -> {"customers"}
      [] OTHER -> ReferenceTables \cup {"run", "activezones", "sannaventities"}

IsWrite(e) == e.stmt.op \in {"INSERT", "UPDATE", "TRUNCATE"}

\* Statement j records the timestamp of the family, after every write of the family
TimestampAfterWrites(j, label) ==
    /\ log[j].stmt.op = "TIMESTAMP"
    /\ log[j].stmt.label = label
    /\ log[j].out = "ok"
    /\ \A k \in 1..Len(log) :
          (IsWrite(log[k]) /\ log[k].stmt.table \in FamilyTables(label)) => k < j

(* C31: when a pass of update_data_from_sources has completed, UpdateTracking
   holds a timestamp recorded in this pass for stacks, for customers and for
   sannaventities, each recorded after every write of its family, also when
   the customer source returned no records. *)
C31_TimestampPerFamily ==
    (family = "pass" /\ pc = "sannav_done") =>
        \A label \in RefreshLabels :
            \E j \in 1..Len(log) : TimestampAfterWrites(j, label)

----------------------------------------------------------------------------
(* Specification of the fan-out of __sannav_lookup_async: one task per record,
   the tasks finishing in any order, then the rest of update_sannav_data *)

MaxTasks == 3

\* Records as update_sannav_data hands them to the fan-out, defaults applied
FanOutSources ==
    { WithDefaults(x) : x \in {y \in SannavSources :
                                   /\ y.zoneAlias = <<"z">>
                                   /\ y.zone = <<"z">>
                                   /\ y.activeZones # <<<<"z">>>>} }

\* The store after the reference-table loop and __get_runid: every name of the
\* records is present, or the switch of some records is not
FanOutStores ==
    { [EmptyDb EXCEPT !["entitytype"] = EntityTypes,
                      !["switch"] = <<NameRow(1, <<"a">>), NameRow(2, <<"b", Q>>)>>,
                      !["fabric"] = <<NameRow(1, <<"f">>)>>,
                      !["health"] = <<NameRow(1, <<"h">>)>>,
                      !["status"] = <<NameRow(1, <<"s">>)>>,
                      !["zone"] = <<NameRow(1, none), NameRow(2, <<"y">>), NameRow(3, <<"z">>)>>,
                      !["run"] = <<[ID |-> 1, capturedatetime |-> DateTime(0)]>>],
      [EmptyDb EXCEPT !["entitytype"] = EntityTypes,
                      !["switch"] = <<NameRow(1, <<"a">>)>>,
                      !["fabric"] = <<NameRow(1, <<"f">>)>>,
                      !["health"] = <<NameRow(1, <<"h">>)>>,
                      !["status"] = <<NameRow(1, <<"s">>)>>,
                      !["zone"] = <<NameRow(1, none), NameRow(2, <<"y">>), NameRow(3, <<"z">>)>>,
                      !["run"] = <<[ID |-> 1, capturedatetime |-> DateTime(0)]>>] }

\* The locals of update_sannav_data at the fan-out, with the tasks of the
\* event loop: pending the tasks not yet run, done their results by position
\* in the argument list, order the positions in the order the tasks finished
FanOutLocals(n) ==
    [exc |-> "", t |-> Len(sannav_common_id_tables), pending |-> 1..n, runid |-> Str(1),
     i |-> 1, results |-> <<>>, done |-> [k \in 1..n |-> <<>>], order |-> <<>>,
     sannav_object_insert_dict_list |-> <<>>, activezone_object_insert_dict_list |-> <<>>]

InitFanOut ==
    /\ db \in FanOutStores
    /\ nextid = [t \in Tables |-> Len(db[t]) + 1]
    /\ cache = db
    /\ log = <<>>
    /\ family = "fanout"
    /\ storage_data_object = NoSources
    /\ loaded = Range(Storage_Id_Tables) \cup Range(Storage_Core_Tables)
    /\ calls = 1
    /\ \E records \in SeqsUpTo(FanOutSources, MaxTasks) :
          /\ src = Numbered(records)
          /\ loc = FanOutLocals(Len(records))
    /\ pc = "fan_out"
    /\ bt = NoFrame
    /\ dirty = {}
    /\ stale = {}
    /\ now = 0
    /\ activezone_object_id_table_dict_list = <<>>

\* One task of the gather runs __format_sannav_insert_data on its record
FanOutTask ==
    /\ pc = "fan_out"
    /\ \E k \in loc.pending :
          /\ loc' = [loc EXCEPT !.pending = @ \ {k},
                                !.done = [@ EXCEPT ![k] = FormatSannav(src[k], loc.runid, cache)],
                                !.order = Append(@, k)]
          /\ src' = [src EXCEPT ![k] = FormatMutated(@)]
    /\ UNCHANGED <<db, nextid, cache, log, pc, family, storage_data_object, loaded, now,
                   activezone_object_id_table_dict_list, calls, bt, dirty, stale>>

\* The results in the order the tasks finished
GatheredAsCompleted(done, order) == [k \in 1..Len(order) |-> done[order[k]]]

\* asyncio.gather: the results in the order of the awaitables given
GatheredInOrder(done, order) == done

\* Every task has finished: gather returns and asyncio.run hands back the list
FanOutGather ==
    /\ pc = "fan_out"
    /\ loc.pending = {}
    /\ loc' = [loc EXCEPT !.results = GatheredInOrder(loc.done, loc.order),
                          !.i = Len(src) + 1]
    /\ pc' = "sannav_format"
    /\ UNCHANGED <<db, nextid, cache, log, family, storage_data_object, loaded, now,
                   activezone_object_id_table_dict_list, calls, src, bt, dirty, stale>>

NextFanOut ==
    \/ FanOutTask
    \/ FanOutGather
    \/ SannavCollect
    \/ BatchEnter
    \/ BatchEntry
    \/ BatchTail
    \/ SannavAzReload
    \/ SannavEntities
    \/ SannavTimestamp

SpecFanOut == InitFanOut /\ [][NextFanOut]_vars

(* C32: while the formatting tasks of __sannav_lookup_async run, in whatever
   order they finish, no statement is executed, and the store and the cache
   stay as they are; a statement is executed only when no task is pending;
   and the list gather returns holds, at position k, the result of formatting
   record k. *)
C32_FanOutWritesNothing ==
    [][family = "fanout" =>
        /\ pc = "fan_out" => (db' = db /\ nextid' = nextid /\ cache' = cache /\ log' = log)
        /\ log' # <<>> => (loc'.pending = {} /\ pc' # "fan_out")
        /\ pc' # "fan_out" =>
              /\ Len(loc'.results) = Len(src')
              /\ \A k \in 1..Len(src') :
                    loc'.results[k] = FormatSannav(src'[k], loc'.runid, cache')
    ]_vars

\* Three tasks finished in another order than given, and the call has written
\* the rows of the three records in the order given
C32_Witness ==
    /\ family = "fanout"
    /\ pc = "sannav_done"
    /\ loc.order = <<3, 1, 2>>
    /\ loc.results[1] # loc.results[3]
    /\ EntityIdsWritten(1) = <<Str(1), Str(2), Str(3)>>
    /\ Len(db["activezones"]) >= 3

----------------------------------------------------------------------------
(* The cache at the end of a family step *)

\* The cached tables the family steps write to
CachedWrittenTables ==
    {"stacks", "webpools", "webs", "customers", "run", "zone", "switch", "fabric", "health",
     "status"}

\* The family step of that label has just returned
EndOfStep(label) ==
    CASE label = "stacks" -> pc = "stack_done"
      [] label = "customers" -> pc = "cust_done"
      [] OTHER -> pc = "sannav_done"

WrittenTo(t) == \E j \in 1..Len(log) : IsWrite(log[j]) /\ log[j].stmt.table = t

(* C33: when a family step of a pass has returned and every statement so far
   was accepted, the cache of every cached table the step wrote to holds
   exactly the rows the store holds for that table. *)
C33_CacheEqualsStoreAfterStep ==
    family = "pass" =>
        \A label \in RefreshLabels :
            (EndOfStep(label) /\ \A j \in 1..Len(log) : log[j].out = "ok") =>
                \A t \in FamilyTables(label) \cap CachedWrittenTables :
                    WrittenTo(t) => cache[t] = db[t]

----------------------------------------------------------------------------
(* Natural keys after update_stack_data *)

NoDuplicateKeys(rows, key) ==
    \A i, j \in 1..Len(rows) : rows[i][key] = rows[j][key] => i = j

(* C34: when update_stack_data has returned, no two stacks rows have the same
   Stack, no two webpools rows the same name and no two webs rows the same
   name, whatever the source records were; the store it started from had no
   such rows. *)
C34_NaturalKeysUnique ==
    (family = "stack" /\ pc = "stack_done") =>
        /\ NoDuplicateKeys(db["stacks"], "Stack")
        /\ NoDuplicateKeys(db["webpools"], "name")
        /\ NoDuplicateKeys(db["webs"], "name")

----------------------------------------------------------------------------
(* The record lists handed to insert_data_to_table_batch *)

\* columns_list = list(record_list[0].keys()) has raised
ColumnNamesReadFailed == pc = "raised" /\ loc.exc \in {"IndexError", "AttributeError"}

\* The batch is entered with a list that is not empty
BatchListNotEmpty == pc = "batch_enter" => bt.records # <<>>

\* With no source records no INSERT is executed
NoInsertWithoutInput == src = <<>> => \A j \in 1..Len(log) : log[j].stmt.op # "INSERT"

(* C35: update_customer_data never enters insert_data_to_table_batch with an
   empty record list, the read of the column names from the first record
   never raises, and with no source records no INSERT is executed. *)
C35_BatchNeverFailsOnFirstRecord ==
    family = "customer" =>
        /\ BatchListNotEmpty
        /\ ~ColumnNamesReadFailed
        /\ NoInsertWithoutInput

----------------------------------------------------------------------------
(* The order of the two fact batches of update_sannav_data *)

\* The store holds the sannaventities row an activezones row points to, of the same run
EntityRowStored(a) ==
    \E x \in 1..Len(db["sannaventities"]) :
        /\ db["sannaventities"][x]["id"] = a["sannaventityid"]
        /\ db["sannaventities"][x]["runid"] = a["runid"]

(* C36: in every state of update_sannav_data, for every activezones row of the
   current run in the store, the store holds a sannaventities row of that run
   whose id is the row's sannaventityid. *)
C36_EntityRowsBeforeEdges ==
    family = "sannav" =>
        \A x \in 1..Len(db["activezones"]) :
            db["activezones"][x]["runid"] = loc.runid => EntityRowStored(db["activezones"][x])

====
